---- MODULE Spec2Model ----
(***************************************************************************)
(* Model of the disk-method visualiser (src/mvp/model.py, controller.py).  *)
(*                                                                         *)
(* The session is the AppState record `state`; every model helper of       *)
(* model.py is an operator from a state (and its arguments) to the state   *)
(* the helper leaves behind, composed in the order the code calls them.    *)
(*                                                                         *)
(* Numbers.  A Python float is modelled as a fixed-point number: an        *)
(* integer count of units of 1/FxOne.  Sums and differences are exact;     *)
(* every product and quotient is truncated to the unit (the counterpart    *)
(* of a float operation rounding to its last bit), and a magnitude above   *)
(* FxMax is the counterpart of a float overflow (inf).  FxOne = 20 * 2^12  *)
(* makes the 0.05 grid of the controller's domain steps and ten            *)
(* successive bisections of such a domain exact.  NaN is the value         *)
(* float("nan"); None is <<>> and a present Optional value v is <<v>>.     *)
(*                                                                         *)
(* Specifications.  Spec is the session driven through the controller's    *)
(* keys; SpecPole is the session after 1/x has been entered on [-7, 1];    *)
(* SpecSimpson is one call of _adaptive_simpson_integrate, SpecCompile     *)
(* one call of the validation of a parsed expression and SpecEvaluate one  *)
(* call of a compiled evaluator, their inputs held in `call` and their     *)
(* results in `ret`.  SpecDraw is one call of slice_samples on a session   *)
(* state; SpecConstant is the session with a constant custom function and  *)
(* SpecDoubling the initial session with its slice count doubled, both     *)
(* with the adaptive estimate kept in `ret`.  SpecPlayback is the rotation *)
(* under timer ticks alone, SpecSlices the slice count under its keys and  *)
(* the applied recommendation, and SpecStage the session under keys, mouse *)
(* presses and timer ticks with the custom function workflow.              *)
(***************************************************************************)
EXTENDS Integers, Sequences, FiniteSets, TLC

VARIABLES state, call, ret

vars == <<state, call, ret>>

---------------------------------------------------------------------------
(* Fixed-point arithmetic (Python float)                                   *)

FxOne == 20 * 4096
FxMax == 8192 * FxOne
NaN == FxMax + 1
None == <<>>

Some(v) == <<v>>

Abs(a) == IF a < 0 THEN -a ELSE a

Sgn(a) == IF a < 0 THEN -1 ELSE 1

Max(a, b) == IF a >= b THEN a ELSE b

Min(a, b) == IF a <= b THEN a ELSE b

IsFinite(v) == v >= -FxMax /\ v <= FxMax

\* |a| * |b| / FxOne truncated, for a, b >= 0, computed without leaving
\* 32 bits (FxOne = 320 * 256); the caller keeps the result within FxMax
MulNN(a, b) ==
    LET a1 == a \div 320
        a0 == a % 320
        b1 == b \div 256
        b0 == b % 256
        t2 == a1 * b0
        t3 == a0 * b1
    IN  a1 * b1 + (t2 \div 256) + (t3 \div 320)
          + (((t2 % 256) * 320 + (t3 % 320) * 256 + a0 * b0) \div FxOne)

\* float product a * b: <<v>>, or None when the magnitude overflows
\* the product's magnitude p with its sign, or None beyond the finite range
Clip(sign, p) == IF p > FxMax THEN None ELSE Some(sign * p)

\* float product a * b: <<v>>, or None when the magnitude overflows
FMul(a, b) ==
    IF (Abs(a) \div FxOne) * (Abs(b) \div FxOne) > FxMax \div FxOne THEN None
    ELSE Clip(Sgn(a) * Sgn(b), MulNN(Abs(a), Abs(b)))

\* <<q, rem>> of (k * r) / b for 0 <= r < b, by k additions
RECURSIVE AddMod(_, _, _)
AddMod(r, b, k) ==
    IF k = 0 THEN <<0, 0>>
    ELSE LET p == AddMod(r, b, k - 1)
             s == p[2] + r
         IN  IF s >= b THEN <<p[1] + 1, s - b>> ELSE <<p[1], s>>

\* <<q, rem>> of (r * 2^k) / b for 0 <= r < b, one bit at a time
RECURSIVE ShiftDiv(_, _, _)
ShiftDiv(r, b, k) ==
    IF k = 0 THEN <<0, r>>
    ELSE LET p == ShiftDiv(r, b, k - 1)
             d == 2 * p[2]
         IN  IF d >= b THEN <<2 * p[1] + 1, d - b>> ELSE <<2 * p[1], d>>

\* float quotient a / b: None on division by zero (ZeroDivisionError) and
\* on overflow; FxOne = 5 * 2^14
FDiv(a, b) ==
    IF b = 0 THEN None
    ELSE LET n == Abs(a)
             d == Abs(b)
             q0 == n \div d
         IN  IF q0 >= FxMax \div FxOne THEN None
             ELSE LET f5 == AddMod(n % d, d, 5)
                      f2 == ShiftDiv(f5[2], d, 14)
                      q == q0 * FxOne + f5[1] * 16384 + f2[1]
                  IN  IF q > FxMax THEN None ELSE Some(Sgn(a) * Sgn(b) * q)

\* the part of a * b that MulNN(a, b) truncates, in units of 1/FxOne^2
MulRem(a, b) ==
    LET t2 == (a \div 320) * (b % 256)
        t3 == (a % 320) * (b \div 256)
    IN  ((t2 % 256) * 320 + (t3 % 320) * 256 + (a % 320) * (b % 256)) % FxOne

\* math.sqrt for v >= 0: the largest s with s * s <= v, by bisection on [lo, hi)
RECURSIVE SqrtSearch(_, _, _)
SqrtSearch(v, lo, hi) ==
    IF hi - lo <= 1 THEN lo
    ELSE LET mid == (lo + hi) \div 2
             sq == MulNN(mid, mid)
         IN  IF sq < v \/ (sq = v /\ MulRem(mid, mid) = 0)
             THEN SqrtSearch(v, mid, hi)
             ELSE SqrtSearch(v, lo, mid)

FSqrt(v) == IF v < 0 THEN None ELSE Some(SqrtSearch(v, 0, 91 * FxOne))

\* math.pi and math.e
Pi == 257359
Euler == 222682

\* math.sin: reduction to [-pi/2, pi/2], then the Taylor
\* polynomial of degree 9 in Horner form
SinPoly(x) ==
    LET x2 == MulNN(Abs(x), Abs(x))
        h4 == FxOne - MulNN(x2, FxOne) \div 72
        h3 == FxOne - MulNN(x2, h4) \div 42
        h2 == FxOne - MulNN(x2, h3) \div 20
        h1 == FxOne - MulNN(x2, h2) \div 6
    IN  Sgn(x) * MulNN(Abs(x), h1)

FSin(x) ==
    LET y == x % (2 * Pi)
    IN  IF y > (3 * Pi) \div 2 THEN SinPoly(y - 2 * Pi)
        ELSE IF y > Pi \div 2 THEN SinPoly(Pi - y)
        ELSE SinPoly(y)

\* math.exp: Taylor polynomial of degree 10 on [-1, 1], squaring outside it
RECURSIVE ExpPoly(_, _)
ExpPoly(y, k) ==
    IF k > 10 THEN FxOne
    ELSE FxOne + Sgn(y) * (MulNN(Abs(y), ExpPoly(y, k + 1)) \div k)

RECURSIVE ExpReduce(_)
ExpReduce(y) ==
    IF Abs(y) > FxOne
    THEN LET h == ExpReduce(y \div 2) IN MulNN(h, h)
    ELSE ExpPoly(y, 1)

\* None is math.exp's OverflowError
FExp(y) == IF y > 9 * FxOne THEN None ELSE Some(ExpReduce(y))

\* a float divided by an integer literal (dx = width / n, tol / 2, ... / 15)
DivI(a, n) == Sgn(a) * (Abs(a) \div n)

\* a float sum; None when it leaves the finite range
FAdd(a, b) == IF IsFinite(a + b) THEN Some(a + b) ELSE None

---------------------------------------------------------------------------
(* Expression parsing helpers                                              *)

\* A node of Python's ast: t is the node class, a its operator class,
\* identifier or constant type, v a numeric constant's value, func the
\* call target (a sequence of one node), kids the operands or positional
\* arguments in order, kw the number of keyword arguments.
Node(t, a, v, func, kids, kw) ==
    [t |-> t, a |-> a, v |-> v, func |-> func, kids |-> kids, kw |-> kw]

Constant(type, v) == Node("Constant", type, v, <<>>, <<>>, 0)

Name(id) == Node("Name", id, 0, <<>>, <<>>, 0)

BinOp(left, op, right) == Node("BinOp", op, 0, <<>>, <<left, right>>, 0)

UnaryOp(op, operand) == Node("UnaryOp", op, 0, <<>>, <<operand>>, 0)

Call(func, args, kw) == Node("Call", "", 0, <<func>>, args, kw)

\* any other node class (Attribute, Subscript, Lambda, Starred, Compare, ...)
Other(t, kids) == Node(t, "", 0, <<>>, kids, 0)

Expression(body) == Node("Expression", "", 0, <<>>, <<body>>, 0)

_ALLOWED_FUNCTIONS ==
    {"sin", "cos", "tan", "asin", "acos", "atan", "exp", "log", "log10",
     "sqrt", "sinh", "cosh", "tanh", "abs"}

_ALLOWED_CONSTANTS == {"pi", "e"}

_ALLOWED_BINOPS == {"Add", "Sub", "Mult", "Div", "Pow", "Mod"}

_ALLOWED_UNARY == {"UAdd", "USub"}

\* isinstance(node.value, (int, float)): bool is a subclass of int
IsIntOrFloat(type) == type \in {"int", "float", "bool"}

Ok == "ok"

\* the first error among the results of validating nodes in order
RECURSIVE FirstError(_)
FirstError(results) ==
    IF results = <<>> THEN Ok
    ELSE IF Head(results) # Ok THEN Head(results)
    ELSE FirstError(Tail(results))

\* _validate_node with the loop over a call's arguments (lines 123-124) left out
RECURSIVE _validate_node_shallow(_)
_validate_node_shallow(node) ==
    IF node.t = "Expression" THEN _validate_node_shallow(node.kids[1])
    ELSE IF node.t = "Constant" THEN
        IF ~IsIntOrFloat(node.a) /\ node.a # "NoneType"
        THEN "Only numeric constants are allowed."
        ELSE Ok
    ELSE IF node.t = "Name" THEN
        IF node.a \notin _ALLOWED_FUNCTIONS /\ node.a \notin _ALLOWED_CONSTANTS
             /\ node.a # "x"
        THEN "Unknown name."
        ELSE Ok
    ELSE IF node.t = "BinOp" THEN
        IF node.a \notin _ALLOWED_BINOPS THEN "Unsupported binary operation."
        ELSE FirstError(<<_validate_node_shallow(node.kids[1]),
                          _validate_node_shallow(node.kids[2])>>)
    ELSE IF node.t = "UnaryOp" THEN
        IF node.a \notin _ALLOWED_UNARY THEN "Unsupported unary operation."
        ELSE _validate_node_shallow(node.kids[1])
    ELSE IF node.t = "Call" THEN
        IF node.kw # 0 THEN "Keyword arguments are not supported in expressions."
        ELSE IF node.func[1].t # "Name"
        THEN "Only simple function calls like sin(x) are allowed."
        ELSE IF node.func[1].a \notin _ALLOWED_FUNCTIONS
        THEN "Function is not supported."
        ELSE Ok
    ELSE "Unsupported expression component."

\* _validate_node: Ok, or the message of the ValueError it raises
RECURSIVE _validate_node(_)
_validate_node(node) ==
    IF node.t = "Expression" THEN _validate_node(node.kids[1])
    ELSE IF node.t = "Constant" THEN
        IF ~IsIntOrFloat(node.a) /\ node.a # "NoneType"
        THEN "Only numeric constants are allowed."
        ELSE Ok
    ELSE IF node.t = "Name" THEN
        IF node.a \notin _ALLOWED_FUNCTIONS /\ node.a \notin _ALLOWED_CONSTANTS
             /\ node.a # "x"
        THEN "Unknown name."
        ELSE Ok
    ELSE IF node.t = "BinOp" THEN
        IF node.a \notin _ALLOWED_BINOPS THEN "Unsupported binary operation."
        ELSE FirstError(<<_validate_node(node.kids[1]), _validate_node(node.kids[2])>>)
    ELSE IF node.t = "UnaryOp" THEN
        IF node.a \notin _ALLOWED_UNARY THEN "Unsupported unary operation."
        ELSE _validate_node(node.kids[1])
    ELSE IF node.t = "Call" THEN
        IF node.kw # 0 THEN "Keyword arguments are not supported in expressions."
        ELSE IF node.func[1].t # "Name"
        THEN "Only simple function calls like sin(x) are allowed."
        ELSE IF node.func[1].a \notin _ALLOWED_FUNCTIONS
        THEN "Function is not supported."
        ELSE FirstError([i \in 1..Len(node.kids) |-> _validate_node(node.kids[i])])
    ELSE "Unsupported expression component."

\* Values of Python expressions: a real number, another object (None, a
\* builtin function), or a raised exception.
Num(v) == [k |-> "num", v |-> v]

Obj == [k |-> "obj", v |-> 0]

Raise == [k |-> "raise", v |-> 0]

\* a complex number of magnitude m (a negative float to a fractional power)
Complex(m) == [k |-> "complex", v |-> m]

\* a float result <<v>> or None (non-finite or raised) as a value
Lift(r) == IF r = None THEN Raise ELSE Num(r[1])

\* c * opt and opt + c for a float result opt that may have raised
MulOpt(c, opt) == IF opt = None THEN None ELSE FMul(c, opt[1])

AddOpt(opt, c) == IF opt = None THEN None ELSE FAdd(opt[1], c)

\* float ** n for an integer n >= 0, by repeated multiplication
RECURSIVE PowInt(_, _)
PowInt(a, n) ==
    IF n = 0 THEN Some(FxOne) ELSE MulOpt(a, PowInt(a, n - 1))

\* Python's float %: the result has the sign of the divisor
FMod(a, b) ==
    IF b = 0 THEN None
    ELSE IF b > 0 THEN Some(a % b)
    ELSE Some(-((-a) % (-b)))

\* 1 / p for a power p; past the finite range the quotient underflows to 0.0
InversePower(p) == IF p = None THEN Num(0) ELSE Lift(FDiv(FxOne, p[1]))

\* float ** float for a whole exponent, and for the exponent 0.5: a negative
\* base to the power 0.5 is a complex number, 0.0 to a negative power raises
\* ZeroDivisionError, an overflowing power raises OverflowError
FPow(l, r) ==
    CASE r % FxOne = 0 /\ r >= 0 -> Lift(PowInt(l, r \div FxOne))
      [] r % FxOne = 0 /\ r < 0 ->
            IF l = 0 THEN Raise ELSE InversePower(PowInt(l, (-r) \div FxOne))
      [] r = FxOne \div 2 ->
            IF l < 0 THEN Complex(FSqrt(-l)[1]) ELSE Lift(FSqrt(l))

\* a binary operator on two real operands
ApplyBinOp(op, l, r) ==
    CASE op = "Add" -> Lift(FAdd(l, r))
      [] op = "Sub" -> Lift(FAdd(l, -r))
      [] op = "Mult" -> Lift(FMul(l, r))
      [] op = "Div" -> Lift(FDiv(l, r))
      [] op = "Mod" -> Lift(FMod(l, r))
      [] op = "Pow" -> FPow(l, r)

\* a whitelisted function on one real argument (the functions the drawn
\* expressions call)
ApplyFunction(name, x) ==
    CASE name = "sqrt" -> Lift(FSqrt(x))
      [] name = "abs" -> Num(Abs(x))
      [] name = "sin" -> Num(FSin(x))
      [] name = "exp" -> Lift(FExp(x))

\* a binary operation on two evaluated operands (TypeError on an object)
EvalBinOp(op, l, r) ==
    IF l.k = "raise" \/ r.k = "raise" THEN Raise
    ELSE IF l.k = "obj" \/ r.k = "obj" THEN Raise
    ELSE IF l.k = "complex" \/ r.k = "complex" THEN
        IF op = "Mod" \/ (op = "Div" /\ r.v = 0) THEN Raise ELSE Complex(0)
    ELSE ApplyBinOp(op, l.v, r.v)

EvalUnaryOp(op, o) ==
    IF o.k = "complex" THEN o
    ELSE IF o.k # "num" THEN Raise
    ELSE IF op = "USub" THEN Num(-o.v) ELSE o

\* a call on evaluated arguments: the math functions take exactly one real
\* argument (TypeError otherwise), math.log also a base
EvalCall(name, args) ==
    IF \E i \in 1..Len(args) : args[i].k = "raise" THEN Raise
    ELSE IF Len(args) # 1 /\ ~(name = "log" /\ Len(args) = 2) THEN Raise
    ELSE IF args[1].k = "complex" /\ name = "abs" THEN Num(args[1].v)
    ELSE IF args[1].k # "num" THEN Raise
    ELSE ApplyFunction(name, args[1].v)

\* eval(code, {"__builtins__": {}}, local_scope) with x bound
RECURSIVE EvalNode(_, _)
EvalNode(node, x) ==
    IF node.t = "Expression" THEN EvalNode(node.kids[1], x)
    ELSE IF node.t = "Constant" THEN
        IF IsIntOrFloat(node.a) THEN Num(node.v) ELSE Obj
    ELSE IF node.t = "Name" THEN
        IF node.a = "x" THEN Num(x)
        ELSE IF node.a = "pi" THEN Num(Pi)
        ELSE IF node.a = "e" THEN Num(Euler)
        ELSE Obj
    ELSE IF node.t = "BinOp" THEN
        EvalBinOp(node.a, EvalNode(node.kids[1], x), EvalNode(node.kids[2], x))
    ELSE IF node.t = "UnaryOp" THEN
        EvalUnaryOp(node.a, EvalNode(node.kids[1], x))
    ELSE
        EvalCall(node.func[1].a,
                 [i \in 1..Len(node.kids) |-> EvalNode(node.kids[i], x)])

\* the closure without its isinstance checks: whatever eval produced is returned
CheckResultLoose(result) ==
    IF result.k = "raise" THEN None
    ELSE IF result.k = "num" /\ ~IsFinite(result.v) THEN None
    ELSE Some(result.v)

\* lines 144-150: the checks the closure makes on eval's result
CheckResult(result) ==
    IF result.k # "num" THEN None
    ELSE IF ~IsFinite(result.v) THEN None
    ELSE Some(result.v)

\* the closure _compile_expression returns, called on x: <<v>> for a finite
\* real, None when it raises
evaluator(tree, x) == CheckResult(EvalNode(tree, x))

\* The class of the exception that leaves eval (line 143), "" when eval
\* returns a value.  Python raises ZeroDivisionError for / and % by zero and
\* for 0.0 to a negative power, OverflowError for a power past the float
\* range, TypeError for an operator or math function applied to an object
\* that is not a real number or called with the wrong number of arguments,
\* ValueError (math domain error) for math.sqrt of a negative number and
\* OverflowError (math range error) for math.exp; + - * / past the float
\* range give inf without raising.
BinOpError(op, l, r) ==
    IF l.k = "obj" \/ r.k = "obj" THEN "TypeError"
    ELSE IF l.k = "complex" \/ r.k = "complex" THEN
        IF op = "Mod" THEN "TypeError"
        ELSE IF op = "Div" /\ r.v = 0 THEN "ZeroDivisionError"
        ELSE ""
    ELSE IF op \in {"Div", "Mod"} /\ r.v = 0 THEN "ZeroDivisionError"
    ELSE IF op = "Pow" /\ l.v = 0 /\ r.v < 0 THEN "ZeroDivisionError"
    ELSE IF op = "Pow" /\ ApplyBinOp(op, l.v, r.v).k = "raise" THEN "OverflowError"
    ELSE ""

UnaryOpError(op, o) == IF o.k = "obj" THEN "TypeError" ELSE ""

CallError(name, args) ==
    IF Len(args) # 1 /\ ~(name = "log" /\ Len(args) = 2) THEN "TypeError"
    ELSE IF args[1].k = "complex" /\ name = "abs" THEN ""
    ELSE IF args[1].k # "num" THEN "TypeError"
    ELSE IF name = "sqrt" /\ args[1].v < 0 THEN "ValueError"
    ELSE IF name = "exp" /\ FExp(args[1].v) = None THEN "OverflowError"
    ELSE ""

\* the first exception among the operands, evaluated left to right
RECURSIVE FirstRaised(_)
FirstRaised(errors) ==
    IF errors = <<>> THEN ""
    ELSE IF Head(errors) # "" THEN Head(errors)
    ELSE FirstRaised(Tail(errors))

\* the node's own exception when no operand raised
OwnError(node, values) ==
    IF node.t = "BinOp" THEN BinOpError(node.a, values[1], values[2])
    ELSE IF node.t = "UnaryOp" THEN UnaryOpError(node.a, values[1])
    ELSE IF node.t = "Call" THEN CallError(node.func[1].a, values)
    ELSE ""

OperandsThenOwn(below, node, values) ==
    IF below # "" THEN below ELSE OwnError(node, values)

RECURSIVE EvalError(_, _)
EvalError(node, x) ==
    IF node.t = "Expression" THEN EvalError(node.kids[1], x)
    ELSE OperandsThenOwn(
             FirstRaised([i \in 1..Len(node.kids) |-> EvalError(node.kids[i], x)]),
             node,
             [i \in 1..Len(node.kids) |-> EvalNode(node.kids[i], x)])

\* the class of the exception a call of the closure ends with, "" when it
\* returns: eval's exception passes through unchanged (there is no try in
\* lines 141-150), and the closure's own three checks raise ValueError
CheckError(raised, returned) ==
    IF raised # "" THEN raised
    ELSE IF returned = None THEN "ValueError"
    ELSE ""

evaluator_raises(tree, x) ==
    CheckError(EvalError(tree, x), CheckResult(EvalNode(tree, x)))

---------------------------------------------------------------------------
(* State factories and selectors                                           *)

\* lambda x: (x - 1) ** 2 + 0.5
QuadraticBowl(x) == AddOpt(PowInt(x - FxOne, 2), FxOne \div 2)

\* lambda x: math.sin(x) + 1.25
ShiftedSine(x) == FAdd(FSin(x), (5 * FxOne) \div 4)

\* lambda x: 0.6 * math.exp(0.5 * x)
ExponentialArc(x) == MulOpt((3 * FxOne) \div 5, FExp(DivI(x, 2)))

\* a Callable[[float], float]: one of the three starter lambdas, or the
\* closure compiled from a parsed expression
Lambda(id) == [kind |-> "lambda", id |-> id, tree |-> <<>>]

Compiled(tree) == [kind |-> "compiled", id |-> 0, tree |-> tree]

\* func(x): <<v>>, or None when the call raises
CallEvaluator(func, x) ==
    IF func.kind = "compiled" THEN evaluator(func.tree, x)
    ELSE IF func.id = 1 THEN QuadraticBowl(x)
    ELSE IF func.id = 2 THEN ShiftedSine(x)
    ELSE ExponentialArc(x)

FunctionDefinition(name, expression, ev, suggested_domain) ==
    [name |-> name, expression |-> expression, evaluator |-> ev,
     suggested_domain |-> suggested_domain]

_build_default_functions ==
    << FunctionDefinition("Quadratic Bowl", "f(x) = (x - 1)^2 + 0.5",
                          Lambda(1), <<0, 2 * FxOne>>),
       FunctionDefinition("Shifted Sine", "f(x) = sin(x) + 1.25",
                          Lambda(2), <<0, Pi>>),
       FunctionDefinition("Exponential Arc", "f(x) = 0.6*e^(0.5x)",
                          Lambda(3), <<0, 2 * FxOne>>) >>

\* a status-line text with the numbers formatted into it
Msg(text, args) == [text |-> text, args |-> args]

active_function(s) == s.functions[s.current_index + 1]

\* the least and the greatest member of a non-empty set of numbers
SetMin(S) == CHOOSE m \in S : \A v \in S : m <= v

SetMax(S) == CHOOSE m \in S : \A v \in S : m >= v

\* x = start + i * dx, the left edge of slice i
SliceLeftEdge(start, width, n, i) == start + DivI(i * width, n)

\* the right edge of a slice in place of its midpoint
SliceRightEdge(start, width, n, i) == start + DivI((i + 1) * width, n)

\* dx = (end - start) / n is kept as the pair (width, n), so that dividing
\* by the slice count loses no more than one unit of the result.
\* x_mid = start + (i + 0.5) * dx
SliceMidpoint(start, width, n, i) == start + DivI((2 * i + 1) * width, 2 * n)

\* the term of a slice with the radius not squared
SliceTermLinear(value, width, n) ==
    DivI(FMul(FMul(Pi, Abs(value))[1], width)[1], n)

\* math.pi * (radius**2) * dx for radius = abs(value)
SliceTerm(value, width, n) ==
    DivI(FMul(FMul(Pi, PowInt(Abs(value), 2)[1])[1], width)[1], n)

\* volume += term over slices lo .. hi (integer addition is associative, so
\* the sum is split in halves to keep the evaluation shallow)
RECURSIVE SumSlices(_, _, _)
SumSlices(terms, lo, hi) ==
    IF lo > hi THEN 0
    ELSE IF lo = hi THEN terms[lo]
    ELSE SumSlices(terms, lo, (lo + hi) \div 2)
           + SumSlices(terms, (lo + hi) \div 2 + 1, hi)

FailedToEvaluate == "Failed to evaluate function inside volume integral."

NonFiniteValues == "Function produced non-finite values inside volume integral."

\* func(x_mid) for every slice of the loop, in order: <<v>>, or None where
\* the call raises
SliceRadii(s) ==
    [i \in 0..(s.slice_count - 1) |->
        CallEvaluator(active_function(s).evaluator,
                      SliceMidpoint(s.domain_start, s.domain_end - s.domain_start,
                                    s.slice_count, i))]

BadSlice(radius, i) == radius[i] = None \/ ~IsFinite(radius[i][1])

\* the slices the loop gets through before the first bad one
SlicesBefore(radius) ==
    {i \in DOMAIN radius : \A j \in DOMAIN radius : j <= i => ~BadSlice(radius, j)}

\* recompute_volume that keeps the volume accumulated up to a failing slice
StoreVolumePartial(s, radius) ==
    IF \E i \in DOMAIN radius : BadSlice(radius, i) THEN
        [s EXCEPT !.message = Msg(FailedToEvaluate, <<>>),
                  !.approx_volume =
                      SumSlices([i \in DOMAIN radius |->
                                    IF i \in SlicesBefore(radius)
                                    THEN SliceTerm(radius[i][1],
                                                   s.domain_end - s.domain_start,
                                                   s.slice_count)
                                    ELSE 0],
                                0, s.slice_count - 1)]
    ELSE
        [s EXCEPT !.approx_volume =
            SumSlices([i \in DOMAIN radius |->
                          SliceTerm(radius[i][1], s.domain_end - s.domain_start,
                                    s.slice_count)],
                      0, s.slice_count - 1)]

\* The loop of recompute_volume returns at the first slice whose evaluation
\* raises or is not finite; otherwise it stores the sum of all the terms.
StoreVolume(s, radius) ==
    IF \E i \in DOMAIN radius : BadSlice(radius, i) THEN
        [s EXCEPT !.message =
                      Msg(IF radius[SetMin({i \in DOMAIN radius : BadSlice(radius, i)})] = None
                          THEN FailedToEvaluate
                          ELSE NonFiniteValues, <<>>),
                  !.approx_volume = NaN]
    ELSE
        [s EXCEPT !.approx_volume =
            SumSlices([i \in DOMAIN radius |->
                          SliceTerm(radius[i][1], s.domain_end - s.domain_start,
                                    s.slice_count)],
                      0, s.slice_count - 1)]

recompute_volume(s) == StoreVolume(s, SliceRadii(s))

\* lines 413-426: [] and a message at the first slice whose evaluation
\* raises or is not finite, otherwise the list of (x_mid, max(0.0, abs(radius)))
CollectSlices(s, radius) ==
    IF \E i \in DOMAIN radius : BadSlice(radius, i) THEN
        [slices |-> <<>>,
         state |-> [s EXCEPT !.message =
                       Msg(IF radius[SetMin({i \in DOMAIN radius : BadSlice(radius, i)})] = None
                           THEN "Failed to evaluate function while computing slices."
                           ELSE "Function produced non-finite values within the domain.",
                           <<>>)]]
    ELSE
        [slices |-> [i \in 1..s.slice_count |->
                        << SliceMidpoint(s.domain_start, s.domain_end - s.domain_start,
                                         s.slice_count, i - 1),
                           Max(0, Abs(radius[i - 1][1])) >>],
         state |-> s]

\* the list slice_samples returns and the state it leaves
slice_samples(s) == CollectSlices(s, SliceRadii(s))

_clear_adaptive_cache(s, keep_message) ==
    [s EXCEPT !.adaptive_volume = None,
              !.adaptive_intervals = <<>>,
              !.adaptive_error = None,
              !.adaptive_recommended_slices = None,
              !.message = IF keep_message THEN s.message
                          ELSE Msg("Adaptive cache cleared.", <<>>)]

AppState(functions, current_index, domain_start, domain_end, slice_count, is_animating, rotation_angle, approx_volume) ==
    [functions |-> functions,
     current_index |-> current_index,
     domain_start |-> domain_start,
     domain_end |-> domain_end,
     slice_count |-> slice_count,
     is_animating |-> is_animating,
     rotation_angle |-> rotation_angle,
     approx_volume |-> approx_volume,
     show_3d |-> FALSE,
     message |-> Msg("Use left/right to switch functions. Press N to add your own.", <<>>),
     input_stage |-> "idle",
     input_buffer |-> <<>>,
     pending_expression |-> None,
     pending_evaluator |-> None,
     pending_domain_start |-> None,
     custom_count |-> 0,
     play_mode |-> "loop",
     last_evaluation_error |-> None,
     adaptive_tolerance |-> FxOne \div 200,
     adaptive_volume |-> None,
     adaptive_intervals |-> <<>>,
     adaptive_error |-> None,
     adaptive_recommended_slices |-> None]

create_initial_state ==
    recompute_volume(AppState(_build_default_functions, 0,
                              _build_default_functions[1].suggested_domain[1],
                              _build_default_functions[1].suggested_domain[2],
                              12, FALSE, 0, 0))

---------------------------------------------------------------------------
(* State mutation helpers                                                  *)

\* lines 225-236, for the function fn at the new index
ShowFunction(s, index, fn) ==
    recompute_volume(_clear_adaptive_cache(
        [s EXCEPT !.current_index = index,
                  !.domain_start = fn.suggested_domain[1],
                  !.domain_end = fn.suggested_domain[2],
                  !.is_animating = FALSE,
                  !.rotation_angle = 0,
                  !.play_mode = "loop",
                  !.message = Msg("Now viewing: " \o fn.name, <<>>)],
        TRUE))

cycle_function(s, step) ==
    ShowFunction(s, (s.current_index + step) % Len(s.functions),
                 s.functions[((s.current_index + step) % Len(s.functions)) + 1])

\* lines 249-257, for the new bounds
StoreDomain(s, new_start, new_end) ==
    recompute_volume(_clear_adaptive_cache(
        [s EXCEPT !.domain_start = new_start,
                  !.domain_end = new_end,
                  !.message = Msg("Domain set to", <<new_start, new_end>>)],
        TRUE))

adjust_domain(s, delta_start, delta_end) ==
    LET raw_start == s.domain_start + delta_start
        min_gap == FxOne \div 5
        raw_end == IF (s.domain_end + delta_end) - raw_start < min_gap
                   THEN raw_start + min_gap
                   ELSE s.domain_end + delta_end
    IN  StoreDomain(s, Max(-10 * FxOne, Min(10 * FxOne, raw_start)),
                    Max(-((49 * FxOne) \div 5), Min(10 * FxOne, raw_end)))

\* set_domain raises ValueError when start >= end and leaves the state alone
set_domain(s, start, end) ==
    IF start >= end THEN s ELSE StoreDomain(s, start, end)

\* lines 276-278, for the clamped count
StoreSliceCount(s, n) ==
    recompute_volume(_clear_adaptive_cache(
        [s EXCEPT !.slice_count = n,
                  !.message = Msg("Using slices for approximation.", <<n>>)],
        TRUE))

\* the slice count changed with the stored volume left as it was
adjust_slice_count_stale(s, delta) ==
    [s EXCEPT !.slice_count = Max(4, Min(240, s.slice_count + delta))]

adjust_slice_count(s, delta) ==
    StoreSliceCount(s, Max(4, Min(240, s.slice_count + delta)))

reset_state(s) ==
    recompute_volume(_clear_adaptive_cache(
        [s EXCEPT !.domain_start = active_function(s).suggested_domain[1],
                  !.domain_end = active_function(s).suggested_domain[2],
                  !.slice_count = 12,
                  !.is_animating = FALSE,
                  !.rotation_angle = 0,
                  !.play_mode = "loop",
                  !.message = Msg("Reset to defaults for "
                                    \o active_function(s).name \o ".", <<>>)],
        TRUE))

toggle_animation(s) ==
    [s EXCEPT !.play_mode = "loop",
              !.is_animating = ~s.is_animating,
              !.message = Msg(IF ~s.is_animating THEN "Looping rotation."
                              ELSE "Rotation paused.", <<>>)]

start_video_playback(s) ==
    [s EXCEPT !.play_mode = "video",
              !.is_animating = TRUE,
              !.rotation_angle = 0,
              !.message = Msg("Playing full revolution", <<>>)]

toggle_display_mode(s) ==
    [s EXCEPT !.show_3d = ~s.show_3d,
              !.message = Msg(IF ~s.show_3d THEN "3D surface preview on."
                              ELSE "3D surface preview off.", <<>>)]

\* 360.0 degrees
FullTurn == 360 * FxOne

\* a playback that stops the rotation at the full turn and stays in video mode
tick_animation_video(s, degrees_per_tick) ==
    IF ~s.is_animating THEN s
    ELSE IF s.play_mode = "video" THEN
        IF s.rotation_angle + degrees_per_tick >= FullTurn
        THEN [s EXCEPT !.rotation_angle = FullTurn,
                       !.is_animating = FALSE,
                       !.message = Msg("Video playback complete.", <<>>)]
        ELSE [s EXCEPT !.rotation_angle = s.rotation_angle + degrees_per_tick]
    ELSE [s EXCEPT !.rotation_angle = (s.rotation_angle + degrees_per_tick) % FullTurn]

\* a playback that wraps around like the loop
tick_animation_wrap(s, degrees_per_tick) ==
    IF ~s.is_animating THEN s
    ELSE [s EXCEPT !.rotation_angle = (s.rotation_angle + degrees_per_tick) % FullTurn]

tick_animation(s, degrees_per_tick) ==
    IF ~s.is_animating THEN s
    ELSE IF s.play_mode = "video" THEN
        IF s.rotation_angle + degrees_per_tick >= FullTurn
        THEN [s EXCEPT !.rotation_angle = FullTurn,
                       !.is_animating = FALSE,
                       !.play_mode = "loop",
                       !.message = Msg("Video playback complete.", <<>>)]
        ELSE [s EXCEPT !.rotation_angle = s.rotation_angle + degrees_per_tick]
    ELSE [s EXCEPT !.rotation_angle = (s.rotation_angle + degrees_per_tick) % FullTurn]

---------------------------------------------------------------------------
(* Adaptive integration                                                    *)

_TOLERANCE_CYCLE ==
    << FxOne \div 20, FxOne \div 50, FxOne \div 100,
       FxOne \div 200, FxOne \div 1000, FxOne \div 2000 >>

\* list.index(value), 0-based; Len(list) when it raises ValueError
RECURSIVE IndexOf(_, _, _)
IndexOf(list, value, i) ==
    IF i > Len(list) THEN Len(list)
    ELSE IF list[i] = value THEN i - 1
    ELSE IndexOf(list, value, i + 1)

\* lines 699-702: the index after the current tolerance's
NextToleranceIndex(found) ==
    ((IF found = Len(_TOLERANCE_CYCLE) THEN 0 ELSE found) + 1) % Len(_TOLERANCE_CYCLE)

\* cycle_adaptive_tolerance without its call of _clear_adaptive_cache
cycle_adaptive_tolerance_keep(s) ==
    [s EXCEPT !.adaptive_tolerance =
                  _TOLERANCE_CYCLE[NextToleranceIndex(
                      IndexOf(_TOLERANCE_CYCLE, s.adaptive_tolerance, 1)) + 1],
              !.message =
                  Msg("Adaptive tolerance set to",
                      <<_TOLERANCE_CYCLE[NextToleranceIndex(
                          IndexOf(_TOLERANCE_CYCLE, s.adaptive_tolerance, 1)) + 1]>>)]

cycle_adaptive_tolerance(s) ==
    _clear_adaptive_cache(
        [s EXCEPT !.adaptive_tolerance =
                      _TOLERANCE_CYCLE[NextToleranceIndex(
                          IndexOf(_TOLERANCE_CYCLE, s.adaptive_tolerance, 1)) + 1],
                  !.message =
                      Msg("Adaptive tolerance set to",
                          <<_TOLERANCE_CYCLE[NextToleranceIndex(
                              IndexOf(_TOLERANCE_CYCLE, s.adaptive_tolerance, 1)) + 1]>>)],
        TRUE)

\* the closure of run_adaptive_refinement over the active evaluator
IntegrandOf(func) == [kind |-> "integrand", func |-> func]

\* lines 716-720: math.pi * abs(value)**2, raising on a non-finite value
DiskArea(value) ==
    IF value = None THEN None
    ELSE IF ~IsFinite(value[1]) THEN None
    ELSE MulOpt(Pi, PowInt(Abs(value[1]), 2))

integrand(func, x) == DiskArea(CallEvaluator(func, x))

\* f(x) for the callable handed to the integrator
CallF(f, x) ==
    IF f.kind = "integrand" THEN integrand(f.func, x) ELSE CallEvaluator(f, x)

_simpson_basic(a, b, fa, fb, fm) == FMul(DivI(b - a, 6), fa + 4 * fm + fb)[1]

\* outcome of a call that may raise, with the intervals list as the call
\* left it
Returned(value, intervals) == [ok |-> TRUE, value |-> value, intervals |-> intervals]

Raised(intervals) == [ok |-> FALSE, value |-> 0, intervals |-> intervals]

RECURSIVE _adaptive_simpson_recursive(_, _, _, _, _, _, _, _, _, _, _)

\* line 842: left + right, once both halves have run
JoinHalves(first, second) ==
    IF ~second.ok THEN second
    ELSE Returned(first.value + second.value, second.intervals)

\* lines 829-841: the right half, run after the left half has returned
RightHalf(left, f, c, b, tol, max_depth, depth, fm, fb, fe, S_right) ==
    IF ~left.ok THEN left
    ELSE JoinHalves(left,
                    _adaptive_simpson_recursive(f, c, b, tol, max_depth, depth,
                                                fm, fb, fe, S_right, left.intervals))

\* the left half run after the right half
LeftHalfAfter(right, f, a, c, tol, max_depth, depth, fa, fm, fd, S_left) ==
    IF ~right.ok THEN right
    ELSE JoinHalves(right,
                    _adaptive_simpson_recursive(f, a, c, tol, max_depth, depth,
                                                fa, fm, fd, S_left, right.intervals))

\* Decide with the two recursive calls in the other order
DecideRightFirst(f, a, c, b, tol, max_depth, depth, fa, fb, fm, S, intervals, fd, fe, S_left, S_right) ==
    IF depth >= max_depth \/ Abs((S_left + S_right) - S) <= 15 * tol
    THEN Returned((S_left + S_right) + DivI((S_left + S_right) - S, 15),
                  Append(intervals, <<a, b, depth>>))
    ELSE LeftHalfAfter(
             _adaptive_simpson_recursive(f, c, b, DivI(tol, 2), max_depth, depth + 1,
                                         fm, fb, fe, S_right, intervals),
             f, a, c, DivI(tol, 2), max_depth, depth + 1, fa, fm, fd, S_left)

\* Decide whose depth test lets the recursion go one level further
DecideDepthLate(f, a, c, b, tol, max_depth, depth, fa, fb, fm, S, intervals, fd, fe, S_left, S_right) ==
    IF depth > max_depth \/ Abs((S_left + S_right) - S) <= 15 * tol
    THEN Returned((S_left + S_right) + DivI((S_left + S_right) - S, 15),
                  Append(intervals, <<a, b, depth>>))
    ELSE RightHalf(
             _adaptive_simpson_recursive(f, a, c, DivI(tol, 2), max_depth, depth + 1,
                                         fa, fm, fd, S_left, intervals),
             f, c, b, DivI(tol, 2), max_depth, depth + 1, fm, fb, fe, S_right)

\* Decide handing the halves the tolerance of the whole interval
DecideSameTol(f, a, c, b, tol, max_depth, depth, fa, fb, fm, S, intervals, fd, fe, S_left, S_right) ==
    IF depth >= max_depth \/ Abs((S_left + S_right) - S) <= 15 * tol
    THEN Returned((S_left + S_right) + DivI((S_left + S_right) - S, 15),
                  Append(intervals, <<a, b, depth>>))
    ELSE RightHalf(
             _adaptive_simpson_recursive(f, a, c, tol, max_depth, depth + 1,
                                         fa, fm, fd, S_left, intervals),
             f, c, b, tol, max_depth, depth + 1, fm, fb, fe, S_right)

\* Decide returning S2 for an accepted interval, without the extrapolation
DecidePlain(f, a, c, b, tol, max_depth, depth, fa, fb, fm, S, intervals, fd, fe, S_left, S_right) ==
    IF depth >= max_depth \/ Abs((S_left + S_right) - S) <= 15 * tol
    THEN Returned(S_left + S_right, Append(intervals, <<a, b, depth>>))
    ELSE RightHalf(
             _adaptive_simpson_recursive(f, a, c, DivI(tol, 2), max_depth, depth + 1,
                                         fa, fm, fd, S_left, intervals),
             f, c, b, DivI(tol, 2), max_depth, depth + 1, fm, fb, fe, S_right)

\* lines 811-842: accept the interval, or split it and run the left half,
\* then the right half
Decide(f, a, c, b, tol, max_depth, depth, fa, fb, fm, S, intervals, fd, fe, S_left, S_right) ==
    IF depth >= max_depth \/ Abs((S_left + S_right) - S) <= 15 * tol
    THEN Returned((S_left + S_right) + DivI((S_left + S_right) - S, 15),
                  Append(intervals, <<a, b, depth>>))
    ELSE RightHalf(
             _adaptive_simpson_recursive(f, a, c, DivI(tol, 2), max_depth, depth + 1,
                                         fa, fm, fd, S_left, intervals),
             f, c, b, DivI(tol, 2), max_depth, depth + 1, fm, fb, fe, S_right)

\* lines 804-809: the call raises if f raised at either quarter point
Refine(f, a, c, b, tol, max_depth, depth, fa, fb, fm, S, intervals, fd, fe) ==
    IF fd = None \/ fe = None THEN Raised(intervals)
    ELSE Decide(f, a, c, b, tol, max_depth, depth, fa, fb, fm, S, intervals,
                fd[1], fe[1],
                _simpson_basic(a, c, fa, fm, fd[1]),
                _simpson_basic(c, b, fm, fb, fe[1]))

\* lines 803-805, for c = (a + b) / 2
Bisect(f, a, c, b, tol, max_depth, depth, fa, fb, fm, S, intervals) ==
    Refine(f, a, c, b, tol, max_depth, depth, fa, fb, fm, S, intervals,
           CallF(f, DivI(a + c, 2)), CallF(f, DivI(c + b, 2)))

_adaptive_simpson_recursive(f, a, b, tol, max_depth, depth, fa, fb, fm, S, intervals) ==
    Bisect(f, a, DivI(a + b, 2), b, tol, max_depth, depth, fa, fb, fm, S, intervals)

\* lines 771-787, for the three values of f the call starts from
StartRecursion(f, a, b, tol, max_depth, fa, fb, fm) ==
    IF fa = None \/ fb = None \/ fm = None THEN Raised(<<>>)
    ELSE _adaptive_simpson_recursive(
             f, a, b, tol, max_depth, 0, fa[1], fb[1], fm[1],
             _simpson_basic(a, b, fa[1], fb[1], fm[1]), <<>>)

_adaptive_simpson_integrate(f, a, b, tol, max_depth) ==
    StartRecursion(f, a, b, tol, max_depth,
                   CallF(f, a), CallF(f, b), CallF(f, DivI(a + b, 2)))

\* abs(volume - approx_volume); nan when approx_volume is nan
AbsDiff(volume, approx) == IF approx = NaN THEN NaN ELSE Abs(volume - approx)

DefaultMaxDepth == 12

\* run_adaptive_refinement whose except branch keeps the intervals recorded
\* before the failure
StoreAdaptivePartial(s, r) ==
    IF ~r.ok THEN
        [s EXCEPT !.message = Msg("Adaptive refinement failed", <<>>),
                  !.adaptive_volume = None,
                  !.adaptive_intervals = r.intervals,
                  !.adaptive_error = None,
                  !.adaptive_recommended_slices = None]
    ELSE
        [s EXCEPT !.adaptive_volume = Some(r.value),
                  !.adaptive_intervals = r.intervals,
                  !.adaptive_error = Some(AbsDiff(r.value, s.approx_volume)),
                  !.adaptive_recommended_slices = Some(Max(12, Len(r.intervals) * 2)),
                  !.message = Msg("Adaptive volume; manual error; suggested slices",
                                  <<r.value, AbsDiff(r.value, s.approx_volume),
                                    Max(12, Len(r.intervals) * 2)>>)]

\* run_adaptive_refinement recommending one slice per terminal interval
StoreAdaptiveUndoubled(s, r) ==
    IF ~r.ok THEN
        [s EXCEPT !.message = Msg("Adaptive refinement failed", <<>>),
                  !.adaptive_volume = None,
                  !.adaptive_intervals = <<>>,
                  !.adaptive_error = None,
                  !.adaptive_recommended_slices = None]
    ELSE
        [s EXCEPT !.adaptive_volume = Some(r.value),
                  !.adaptive_intervals = r.intervals,
                  !.adaptive_error = Some(AbsDiff(r.value, s.approx_volume)),
                  !.adaptive_recommended_slices = Some(Max(12, Len(r.intervals))),
                  !.message = Msg("Adaptive volume; manual error; suggested slices",
                                  <<r.value, AbsDiff(r.value, s.approx_volume),
                                    Max(12, Len(r.intervals))>>)]

\* lines 729-745: the except branch, or the stores after a successful run
StoreAdaptive(s, r) ==
    IF ~r.ok THEN
        [s EXCEPT !.message = Msg("Adaptive refinement failed", <<>>),
                  !.adaptive_volume = None,
                  !.adaptive_intervals = <<>>,
                  !.adaptive_error = None,
                  !.adaptive_recommended_slices = None]
    ELSE
        [s EXCEPT !.adaptive_volume = Some(r.value),
                  !.adaptive_intervals = r.intervals,
                  !.adaptive_error = Some(AbsDiff(r.value, s.approx_volume)),
                  !.adaptive_recommended_slices = Some(Max(12, Len(r.intervals) * 2)),
                  !.message = Msg("Adaptive volume; manual error; suggested slices",
                                  <<r.value, AbsDiff(r.value, s.approx_volume),
                                    Max(12, Len(r.intervals) * 2)>>)]

run_adaptive_refinement(s) ==
    StoreAdaptive(s, _adaptive_simpson_integrate(
                         IntegrandOf(active_function(s).evaluator),
                         s.domain_start, s.domain_end, s.adaptive_tolerance,
                         DefaultMaxDepth))

\* the recommended count stored with the volume left as it was
ApplySliceCountStale(s, n) ==
    [s EXCEPT !.slice_count = n,
              !.message = Msg("Applied adaptive slice count", <<n>>)]

\* lines 755-757, for the clamped count
ApplySliceCount(s, n) ==
    recompute_volume(
        [s EXCEPT !.slice_count = n,
                  !.message = Msg("Applied adaptive slice count", <<n>>)])

\* the recommendation adopted as it is
apply_adaptive_slice_recommendation_unclamped(s) ==
    IF s.adaptive_recommended_slices = None \/ s.adaptive_recommended_slices = Some(0)
    THEN [s EXCEPT !.message =
              Msg("No adaptive recommendation yet. Press A to analyse first.", <<>>)]
    ELSE ApplySliceCount(s, s.adaptive_recommended_slices[1])

apply_adaptive_slice_recommendation(s) ==
    IF s.adaptive_recommended_slices = None \/ s.adaptive_recommended_slices = Some(0)
    THEN [s EXCEPT !.message =
              Msg("No adaptive recommendation yet. Press A to analyse first.", <<>>)]
    ELSE ApplySliceCount(s, Max(4, Min(240, s.adaptive_recommended_slices[1])))

---------------------------------------------------------------------------
(* Custom function workflow                                                *)

\* Typed text is a sequence of one-character strings.

\* str.strip() for blanks
RECURSIVE Strip(_)
Strip(text) ==
    IF text = <<>> THEN text
    ELSE IF Head(text) = " " THEN Strip(Tail(text))
    ELSE IF text[Len(text)] = " " THEN Strip(SubSeq(text, 1, Len(text) - 1))
    ELSE text

\* cleaned.replace("^", "**")
RECURSIVE ReplaceCaret(_)
ReplaceCaret(text) ==
    IF text = <<>> THEN text
    ELSE IF Head(text) = "^" THEN <<"*", "*">> \o ReplaceCaret(Tail(text))
    ELSE <<Head(text)>> \o ReplaceCaret(Tail(text))

\* the text as one string
RECURSIVE Text(_)
Text(chars) == IF chars = <<>> THEN "" ELSE Head(chars) \o Text(Tail(chars))

SyntaxError == [t |-> "SyntaxError"]

\* ast.parse(cleaned, mode="eval") on the texts that are typed here
ast_parse(cleaned) ==
    CASE cleaned = <<"1">> -> Expression(Constant("int", FxOne))
      [] cleaned = <<"0">> -> Expression(Constant("int", 0))
      [] cleaned = <<"2">> -> Expression(Constant("int", 2 * FxOne))
      [] cleaned = <<"-", "1">> -> Expression(UnaryOp("USub", Constant("int", FxOne)))
      [] cleaned = <<"x">> -> Expression(Name("x"))
      [] cleaned = <<"1", "/", "x">> ->
            Expression(BinOp(Constant("int", FxOne), "Div", Name("x")))
      [] cleaned = <<"x", "*", "*", "2">> ->
            Expression(BinOp(Name("x"), "Pow", Constant("int", 2 * FxOne)))
      [] cleaned \in { <<"1", "/">>, <<"x", "*", "*">>, <<"x", "*">> } -> SyntaxError

Accepted(ev) == [ok |-> TRUE, reason |-> "", evaluator |-> ev]

Rejected(reason) == [ok |-> FALSE, reason |-> reason, evaluator |-> Lambda(0)]

\* lines 138-152, given _validate_node's verdict on the tree
WrapEvaluator(tree, verdict) ==
    IF verdict # Ok THEN Rejected(verdict) ELSE Accepted(Compiled(tree))

\* lines 138-152: validate the parsed tree and wrap it in the evaluator closure
CompileTree(tree) == WrapEvaluator(tree, _validate_node(tree))

\* lines 137-152, given ast.parse's result
CompileParsed(tree) ==
    IF tree = SyntaxError THEN Rejected("invalid syntax") ELSE CompileTree(tree)

_compile_expression(expr) ==
    IF Strip(expr) = <<>> THEN Rejected("Expression cannot be empty.")
    ELSE CompileParsed(ast_parse(ReplaceCaret(Strip(expr))))

begin_custom_function_entry(s) ==
    IF s.input_stage # "idle" THEN s
    ELSE [s EXCEPT !.input_stage = "function",
                   !.input_buffer = <<>>,
                   !.pending_expression = None,
                   !.pending_evaluator = None,
                   !.pending_domain_start = None,
                   !.message = Msg("Enter f(x) using sin, cos, exp... then press Enter.", <<>>)]

\* a cancel that leaves the pending entries behind
cancel_input_keep(s) ==
    [s EXCEPT !.input_stage = "idle",
              !.input_buffer = <<>>,
              !.message = Msg("Custom function entry cancelled.", <<>>)]

cancel_input(s) ==
    [s EXCEPT !.input_stage = "idle",
              !.input_buffer = <<>>,
              !.pending_expression = None,
              !.pending_evaluator = None,
              !.pending_domain_start = None,
              !.message = Msg("Custom function entry cancelled.", <<>>)]

FunctionChars ==
    { "a", "b", "c", "d", "e", "f", "g", "h", "i", "j", "k", "l", "m", "n",
      "o", "p", "q", "r", "s", "t", "u", "v", "w", "x", "y", "z",
      "A", "B", "C", "D", "E", "F", "G", "H", "I", "J", "K", "L", "M", "N",
      "O", "P", "Q", "R", "S", "T", "U", "V", "W", "X", "Y", "Z",
      "0", "1", "2", "3", "4", "5", "6", "7", "8", "9",
      "+", "-", "*", "/", "^", "(", ")", ".", ",", "_", " " }

NumberChars ==
    { "0", "1", "2", "3", "4", "5", "6", "7", "8", "9", "e", "E", "+", "-", "." }

MaxBufferLen == 120

append_input_character(s, char) ==
    IF s.input_stage = "idle" THEN s
    ELSE IF char \in (IF s.input_stage = "function" THEN FunctionChars ELSE NumberChars)
              /\ Len(s.input_buffer) < MaxBufferLen
    THEN [s EXCEPT !.input_buffer = Append(s.input_buffer, char)]
    ELSE s

backspace_input(s) ==
    IF s.input_stage # "idle" /\ s.input_buffer # <<>>
    THEN [s EXCEPT !.input_buffer = SubSeq(s.input_buffer, 1, Len(s.input_buffer) - 1)]
    ELSE s

\* lines 531-542, given the outcome of _compile_expression
StoreExpression(s, expr, compiled) ==
    IF ~compiled.ok THEN
        [s EXCEPT !.message = Msg("Cannot parse expression: " \o compiled.reason, <<>>),
                  !.input_buffer = <<>>]
    ELSE IF CallEvaluator(compiled.evaluator,
                          DivI(s.domain_start + s.domain_end, 2)) = None THEN
        [s EXCEPT !.message = Msg("Cannot parse expression: evaluation raised", <<>>),
                  !.input_buffer = <<>>]
    ELSE
        [s EXCEPT !.pending_expression = Some(Text(expr)),
                  !.pending_evaluator = Some(compiled.evaluator),
                  !.input_buffer = <<>>,
                  !.input_stage = "domain_start",
                  !.message = Msg("Enter domain start (float) and press Enter.", <<>>)]

_handle_function_expression(s) ==
    StoreExpression(s, Strip(s.input_buffer), _compile_expression(Strip(s.input_buffer)))

Digits == << "0", "1", "2", "3", "4", "5", "6", "7", "8", "9" >>

\* float(text) for whole numbers; None is its ValueError
RECURSIVE DigitsValue(_, _)
DigitsValue(text, acc) ==
    IF text = <<>> THEN Some(acc * FxOne)
    ELSE IF IndexOf(Digits, Head(text), 1) = Len(Digits) THEN None
    ELSE DigitsValue(Tail(text), 10 * acc + IndexOf(Digits, Head(text), 1))

\* -v for a parsed magnitude
Negated(v) == IF v = None THEN None ELSE Some(-v[1])

float(text) ==
    IF text = <<>> THEN None
    ELSE IF Head(text) = "-" THEN
        IF Tail(text) = <<>> THEN None ELSE Negated(DigitsValue(Tail(text), 0))
    ELSE DigitsValue(text, 0)

\* lines 548-557, given float()'s result
StoreDomainStart(s, value) ==
    IF value = None THEN
        [s EXCEPT !.message = Msg("Domain start must be a number.", <<>>),
                  !.input_buffer = <<>>]
    ELSE
        [s EXCEPT !.pending_domain_start = value,
                  !.input_buffer = <<>>,
                  !.input_stage = "domain_end",
                  !.message = Msg("Enter domain end (greater than start) and press Enter.", <<>>)]

_handle_domain_start(s) == StoreDomainStart(s, float(Strip(s.input_buffer)))

PosInf == FxMax + 2

\* _frange(start, end, step): the i-th value yielded, and the index of the
\* last one (current <= end + step / 2)
FrangeLast(start, end, step) == (end + DivI(step, 2) - start) \div step

FrangeAt(start, end, step, i) ==
    IF i = 0 THEN start ELSE Min(start + i * step, end)

ValidationSamples == 90

SampleFailed == [ok |-> FALSE, min_val |-> PosInf, max_val |-> -PosInf]

\* lines 635-643, given evaluator(x) at every x of _frange in order
SampleRange(values) ==
    IF \E i \in DOMAIN values : values[i] = None THEN SampleFailed
    ELSE [ok |-> TRUE,
          min_val |-> SetMin({values[i][1] : i \in DOMAIN values}),
          max_val |-> SetMax({values[i][1] : i \in DOMAIN values})]

\* lines 631-643, for step = (end - start) / samples
SampleWithStep(ev, start, end, step) ==
    IF step <= 0 THEN SampleFailed
    ELSE SampleRange([i \in 0..FrangeLast(start, end, step) |->
                         CallEvaluator(ev, FrangeAt(start, end, step, i))])

\* ok is FALSE when _sample_for_validation raises: an empty domain, a
\* non-positive step, or an evaluation that raises at one of the samples
_sample_for_validation(ev, start, end) ==
    IF end <= start THEN SampleFailed
    ELSE SampleWithStep(ev, start, end, DivI(end - start, ValidationSamples))

\* lines 587-619: the new function becomes the active one
AddFunction(s, ev, domain_start, domain_end, range, count, name) ==
    recompute_volume(
        [_clear_adaptive_cache(
            [s EXCEPT !.custom_count = count,
                      !.functions =
                          Append(s.functions,
                                 FunctionDefinition(name,
                                                    "f(x) = " \o s.pending_expression[1],
                                                    ev, <<domain_start, domain_end>>)),
                      !.current_index = Len(s.functions),
                      !.domain_start = domain_start,
                      !.domain_end = domain_end,
                      !.input_stage = "idle",
                      !.input_buffer = <<>>,
                      !.pending_evaluator = None,
                      !.pending_expression = None,
                      !.pending_domain_start = None,
                      !.play_mode = "loop",
                      !.is_animating = FALSE],
            TRUE)
         EXCEPT !.message =
            IF range.min_val < 0
            THEN Msg("Added " \o name \o ". Warning: function dips below the axis; discs use |f(x)|.", <<>>)
            ELSE Msg("Added " \o name \o "! Press space to animate or V to play once.", <<>>)])

\* a completion that does not count the function it adds
FinishCustomUncounted(s, ev, domain_start, domain_end, range) ==
    IF ~range.ok THEN
        cancel_input([s EXCEPT !.message =
            Msg("Could not evaluate function on domain", <<>>)])
    ELSE AddFunction(s, ev, domain_start, domain_end, range, s.custom_count,
                     "Custom " \o ToString(s.custom_count))

\* lines 580-619, given the outcome of _sample_for_validation
FinishCustom(s, ev, domain_start, domain_end, range) ==
    IF ~range.ok THEN
        cancel_input([s EXCEPT !.message =
            Msg("Could not evaluate function on domain", <<>>)])
    ELSE AddFunction(s, ev, domain_start, domain_end, range, s.custom_count + 1,
                     "Custom " \o ToString(s.custom_count + 1))

\* lines 564-619, given float()'s result and the pending start
StoreDomainEnd(s, parsed, domain_start) ==
    IF parsed = None THEN
        [s EXCEPT !.message = Msg("Domain end must be numeric.", <<>>),
                  !.input_buffer = <<>>]
    ELSE IF parsed[1] <= domain_start THEN
        [s EXCEPT !.message = Msg("Domain end must be greater than start.", <<>>),
                  !.input_buffer = <<>>]
    ELSE IF s.pending_evaluator = None \/ s.pending_expression = None THEN
        cancel_input([s EXCEPT !.message =
            Msg("Unexpected error finalising custom function.", <<>>)])
    ELSE FinishCustom(s, s.pending_evaluator[1], domain_start, parsed[1],
                      _sample_for_validation(s.pending_evaluator[1],
                                             domain_start, parsed[1]))

_handle_domain_end(s) ==
    StoreDomainEnd(s, float(Strip(s.input_buffer)), s.pending_domain_start[1])

submit_input(s) ==
    IF s.input_stage = "function" THEN _handle_function_expression(s)
    ELSE IF s.input_stage = "domain_start" THEN _handle_domain_start(s)
    ELSE IF s.input_stage = "domain_end" THEN _handle_domain_end(s)
    ELSE s

---------------------------------------------------------------------------
(* Controller (src/mvp/controller.py)                                      *)

KeyNames ==
    [space |-> " ", minus |-> "-", equal |-> "=", slash |-> "/", period |-> ".",
     comma |-> ",", apostrophe |-> "'", semicolon |-> ";", leftBracket |-> "[",
     rightBracket |-> "]", backslash |-> "\\"]

_key_to_char(key) ==
    IF Len(key) = 1 THEN Some(key)
    ELSE IF key \in DOMAIN KeyNames THEN Some(KeyNames[key])
    ELSE None

\* lines 63-65 of key_pressed: a key typed while text is being entered
TypeChar(s, char) ==
    IF char # None THEN append_input_character(s, char[1]) ELSE s

\* lines 55-66 of key_pressed: a key while a custom function is being entered
EntryKey(s, key) ==
    IF key = "enter" THEN submit_input(s)
    ELSE IF key = "backspace" THEN backspace_input(s)
    ELSE IF key = "escape" THEN cancel_input(s)
    ELSE TypeChar(s, _key_to_char(key))

\* lines 68-106 of key_pressed: a key of the idle session
CommandKey(s, key) ==
    CASE key \in {"left", "a"} -> cycle_function(s, -1)
      [] key \in {"right", "d"} -> cycle_function(s, 1)
      [] key = "[" -> adjust_domain(s, -(FxOne \div 10), 0)
      [] key = "]" -> adjust_domain(s, 0, FxOne \div 10)
      [] key = "{" -> adjust_domain(s, -(FxOne \div 4), 0)
      [] key = "}" -> adjust_domain(s, 0, FxOne \div 4)
      [] key \in {"+", "="} -> adjust_slice_count(s, 1)
      [] key \in {"-", "_"} -> adjust_slice_count(s, -1)
      [] key = "up" -> adjust_slice_count(s, 2)
      [] key = "down" -> adjust_slice_count(s, -2)
      [] key = "space" -> toggle_animation(s)
      [] key \in {"n", "N"} -> begin_custom_function_entry(s)
      [] key \in {"v", "V"} -> start_video_playback(s)
      [] key = "A" -> run_adaptive_refinement(s)
      [] key \in {"g", "G"} -> apply_adaptive_slice_recommendation(s)
      [] key \in {"t", "T"} -> cycle_adaptive_tolerance(s)
      [] key = "3" -> toggle_display_mode(s)
      [] key = "r" -> reset_state(s)
      [] OTHER -> s

\* a dispatch that hands every key but the three editing keys to the
\* commands of the idle session, whatever the stage
key_pressed_unguarded(s, key) ==
    IF s.input_stage # "idle" /\ key \in {"enter", "backspace", "escape"}
    THEN EntryKey(s, key) ELSE CommandKey(s, key)

key_pressed(s, key) ==
    IF s.input_stage # "idle" THEN EntryKey(s, key) ELSE CommandKey(s, key)

\* lines 145-150 of mouse_pressed: a click inside the graph, for the slice
\* index _index_for_x returns (None outside the graph's width)
GraphClick(s, focus_index) ==
    IF focus_index = None THEN s
    ELSE [s EXCEPT !.rotation_angle =
                       360 * DivI(focus_index[1] * FxOne, Max(1, s.slice_count)),
                   !.is_animating = TRUE]

\* mouse_pressed for the button under the cursor ("" for none), and for a
\* click inside the graph or elsewhere
mouse_pressed(s, button_hit, in_graph, focus_index) ==
    IF s.input_stage # "idle" THEN s
    ELSE CASE button_hit = "play" -> start_video_playback(s)
           [] button_hit = "toggle3d" -> toggle_display_mode(s)
           [] button_hit = "addFunction" -> begin_custom_function_entry(s)
           [] button_hit = "adaptive" -> run_adaptive_refinement(s)
           [] button_hit = "tolerance" -> cycle_adaptive_tolerance(s)
           [] button_hit = "applySlices" -> apply_adaptive_slice_recommendation(s)
           [] OTHER -> IF in_graph THEN GraphClick(s, focus_index)
                       ELSE toggle_animation(s)

\* lines 173-175
timer_fired(s) ==
    tick_animation(s, IF s.play_mode = "video" THEN 5 * FxOne ELSE 4 * FxOne)

---------------------------------------------------------------------------
(* The session: one user driving the controller from the start-up state    *)

\* Exploration bounds.  A state's departure from the defaults of its active
\* function is the number of small key presses needed to reach it; the
\* session is explored up to MaxDeparture.
MaxDeparture == 2

MaxCustom == 1

CustomWeight == 2

CeilDiv(a, b) == (a + b - 1) \div b

DomainCost(s) ==
    CeilDiv(Max(0, active_function(s).suggested_domain[1] - s.domain_start),
            FxOne \div 10)
      + CeilDiv(Max(0, s.domain_end - active_function(s).suggested_domain[2]),
                FxOne \div 10)

SliceCost(s) == Abs(s.slice_count - 12)

ToleranceCost(s) ==
    (IndexOf(_TOLERANCE_CYCLE, s.adaptive_tolerance, 1) + 3) % Len(_TOLERANCE_CYCLE)

CustomCost(s) ==
    CustomWeight * (s.custom_count + (IF s.input_stage # "idle" THEN 1 ELSE 0))

Departure(s) == DomainCost(s) + SliceCost(s) + ToleranceCost(s) + CustomCost(s)

WithinBounds(s) == Departure(s) <= MaxDeparture /\ s.custom_count <= MaxCustom

\* the texts the user types, character by character
TypedExpressions == { <<"1", "/", "x">> }

TypedNumbers == { <<"0">>, <<"1">>, <<"1", "0">>, <<"1", "1">> }

TypedKeys == { "0", "1", "slash", "x", "leftBracket" }

IsPrefix(p, t) == Len(p) <= Len(t) /\ SubSeq(t, 1, Len(p)) = p

TypedPrefix(s) ==
    \E t \in (IF s.input_stage = "function" THEN TypedExpressions ELSE TypedNumbers) :
        IsPrefix(s.input_buffer, t)

\* the domains handed to set_domain
SetDomainInputs ==
    { <<0, (21 * FxOne) \div 10>>, <<(21 * FxOne) \div 10, 0>>, <<FxOne, FxOne>> }

Init ==
    /\ state = create_initial_state
    /\ call = <<>>
    /\ ret = <<>>

\* key_pressed, lines 68-71
KeyCycle ==
    /\ state.input_stage = "idle"
    /\ \E step \in {-1, 1} : state' = cycle_function(state, step)
    /\ WithinBounds(state')
    /\ UNCHANGED <<call, ret>>

\* key_pressed, lines 72-79
KeyDomain ==
    /\ state.input_stage = "idle"
    /\ \E d \in { <<-(FxOne \div 10), 0>>, <<0, FxOne \div 10>>,
                  <<-(FxOne \div 4), 0>>, <<0, FxOne \div 4>> } :
           state' = adjust_domain(state, d[1], d[2])
    /\ WithinBounds(state')
    /\ UNCHANGED <<call, ret>>

\* key_pressed, lines 80-87
KeySlices ==
    /\ state.input_stage = "idle"
    /\ \E delta \in {1, -1, 2, -2} : state' = adjust_slice_count(state, delta)
    /\ WithinBounds(state')
    /\ UNCHANGED <<call, ret>>

\* key_pressed, lines 90-91
KeyNew ==
    /\ state.input_stage = "idle"
    /\ state.custom_count < MaxCustom
    /\ state' = begin_custom_function_entry(state)
    /\ WithinBounds(state')
    /\ UNCHANGED <<call, ret>>

\* key_pressed, lines 94-95
KeyAdaptive ==
    /\ state.input_stage = "idle"
    /\ state' = run_adaptive_refinement(state)
    /\ UNCHANGED <<call, ret>>

\* key_pressed, lines 96-97
KeyApply ==
    /\ state.input_stage = "idle"
    /\ state' = apply_adaptive_slice_recommendation(state)
    /\ WithinBounds(state')
    /\ UNCHANGED <<call, ret>>

\* key_pressed, lines 98-99
KeyTolerance ==
    /\ state.input_stage = "idle"
    /\ state' = cycle_adaptive_tolerance(state)
    /\ WithinBounds(state')
    /\ UNCHANGED <<call, ret>>

\* key_pressed, lines 102-103
KeyReset ==
    /\ state.input_stage = "idle"
    /\ state' = reset_state(state)
    /\ UNCHANGED <<call, ret>>

\* key_pressed, lines 62-65
KeyType ==
    /\ state.input_stage # "idle"
    /\ \E key \in TypedKeys : state' = TypeChar(state, _key_to_char(key))
    /\ TypedPrefix(state')
    /\ UNCHANGED <<call, ret>>

\* key_pressed, lines 56-57
KeyEnter ==
    /\ state.input_stage # "idle"
    /\ state' = submit_input(state)
    /\ WithinBounds(state')
    /\ UNCHANGED <<call, ret>>

\* key_pressed, lines 58-59
KeyBackspace ==
    /\ state.input_stage # "idle"
    /\ state' = backspace_input(state)
    /\ UNCHANGED <<call, ret>>

\* key_pressed, lines 60-61
KeyEscape ==
    /\ state.input_stage # "idle"
    /\ state' = cancel_input(state)
    /\ UNCHANGED <<call, ret>>

\* set_domain is explored where it widens the suggested domain
SetDomainCall ==
    /\ state.input_stage = "idle"
    /\ \E d \in SetDomainInputs : state' = set_domain(state, d[1], d[2])
    /\ WithinBounds(state')
    /\ state'.domain_start <= active_function(state').suggested_domain[1]
    /\ state'.domain_end >= active_function(state').suggested_domain[2]
    /\ UNCHANGED <<call, ret>>

Next ==
    \/ KeyCycle
    \/ KeyDomain
    \/ KeySlices
    \/ KeyNew
    \/ KeyAdaptive
    \/ KeyApply
    \/ KeyTolerance
    \/ KeyReset
    \/ KeyType
    \/ KeyEnter
    \/ KeyBackspace
    \/ KeyEscape
    \/ SetDomainCall

Spec == Init /\ [][Next]_vars

\* the four cached adaptive fields are all cleared
CacheCleared(s) ==
    /\ s.adaptive_volume = None
    /\ s.adaptive_intervals = <<>>
    /\ s.adaptive_error = None
    /\ s.adaptive_recommended_slices = None

\* what the integrator returns for the state's function, domain and tolerance
FreshRun(s) ==
    _adaptive_simpson_integrate(IntegrandOf(active_function(s).evaluator),
                                s.domain_start, s.domain_end,
                                s.adaptive_tolerance, DefaultMaxDepth)

CacheKey(s) ==
    <<active_function(s), s.domain_start, s.domain_end, s.adaptive_tolerance>>

CacheMatches(s, r) ==
    /\ r.ok
    /\ s.adaptive_volume = Some(r.value)
    /\ s.adaptive_intervals = r.intervals
    /\ s.adaptive_recommended_slices = Some(Max(12, 2 * Len(r.intervals)))

\* C2: every step that changes the active function, the domain or the
\* tolerance leaves the four adaptive fields cleared, and after every step a
\* cache that is present is the result of the integrator for the function,
\* domain and tolerance the state then has.
C2_CacheCurrent ==
    [][ /\ (CacheKey(state') # CacheKey(state) => CacheCleared(state'))
        /\ (state'.adaptive_volume # None => CacheMatches(state', FreshRun(state')))
      ]_vars

\* a cache computed after the tolerance was changed, with several intervals
C2_Witness ==
    /\ state.adaptive_volume # None
    /\ state.adaptive_tolerance # FxOne \div 200
    /\ Len(state.adaptive_intervals) >= 2

\* C3: whenever adaptive_error is present it is |adaptive_volume -
\* approx_volume| for the approx_volume of the current slice count.
C3_ErrorCurrent ==
    state.adaptive_error # None =>
        state.adaptive_error = Some(AbsDiff(state.adaptive_volume[1], state.approx_volume))

\* C4: domain_start < domain_end in every reachable session state.
C4_DomainOrdered == state.domain_start < state.domain_end

\* C15: whenever a recommendation is present it is max(12, 2 * the number of
\* terminal intervals of the cached adaptive run).
C15_Recommendation ==
    state.adaptive_recommended_slices # None =>
        state.adaptive_recommended_slices
            = Some(Max(12, 2 * Len(state.adaptive_intervals)))

\* a cached run with more than six terminal intervals, whose recommendation
\* is twice their number
C15_Witness ==
    /\ state.adaptive_recommended_slices # None
    /\ Len(state.adaptive_intervals) > 6
    /\ state.adaptive_recommended_slices[1] = 2 * Len(state.adaptive_intervals)

---------------------------------------------------------------------------
(* The integrator alone: one call of _adaptive_simpson_integrate           *)

MaxDepthDrawn == 3

Reciprocal == Compiled(ast_parse(<<"1", "/", "x">>))

\* the callables and domains the integrator is called with
SimpsonCases ==
    ({IntegrandOf(Lambda(1)), IntegrandOf(Lambda(2)), IntegrandOf(Lambda(3)),
      Lambda(2)}
       \X { <<0, 2 * FxOne>>, <<0, Pi>>, <<-FxOne, 3 * FxOne>> })
    \cup
    ({IntegrandOf(Reciprocal)}
       \X { <<FxOne, 10 * FxOne>>, <<FxOne, 2 * FxOne>>, <<-7 * FxOne, FxOne>>,
            <<-FxOne, FxOne>>, <<0, 2 * FxOne>> })
    \cup
    ({Reciprocal} \X { <<FxOne, 10 * FxOne>>, <<-7 * FxOne, FxOne>> })

SimpsonInputs ==
    { [f |-> c[1], a |-> c[2][1], b |-> c[2][2], tol |-> tol, max_depth |-> d] :
        c \in SimpsonCases,
        tol \in { _TOLERANCE_CYCLE[i] : i \in 1..Len(_TOLERANCE_CYCLE) },
        d \in (0..MaxDepthDrawn) \cup {DefaultMaxDepth} }

InitSimpson ==
    /\ state = create_initial_state
    /\ call \in SimpsonInputs
    /\ ret = <<>>

Integrate ==
    /\ ret = <<>>
    /\ ret' = <<_adaptive_simpson_integrate(call.f, call.a, call.b, call.tol,
                                            call.max_depth)>>
    /\ UNCHANGED <<state, call>>

NextSimpson == Integrate

SpecSimpson == InitSimpson /\ [][NextSimpson]_vars

\* the intervals, in the order of the list, run from a to b without gap or overlap
Tiles(intervals, a, b) ==
    /\ Len(intervals) >= 1
    /\ intervals[1][1] = a
    /\ intervals[Len(intervals)][2] = b
    /\ \A i \in 1..(Len(intervals) - 1) : intervals[i][2] = intervals[i + 1][1]

\* C1: the terminal intervals of every successful run, in the order
\* returned, tile the domain: the first starts at a, the last ends at b, and
\* each one ends where the next starts.
C1_Tiling ==
    (ret # <<>> /\ ret[1].ok) => Tiles(ret[1].intervals, call.a, call.b)

\* a successful run that split the domain into intervals of different depths
C1_Witness ==
    /\ ret # <<>>
    /\ ret[1].ok
    /\ call.a < call.b
    /\ Len(ret[1].intervals) >= 3
    /\ \E i, j \in 1..Len(ret[1].intervals) :
           ret[1].intervals[i][3] # ret[1].intervals[j][3]

\* <<S, S2>> for the interval (a, b) with midpoint c: the basic Simpson
\* estimate over (a, b) and the sum of the estimates over its halves
SimpsonPair(a, c, b, fa, fd, fm, fe, fb) ==
    << _simpson_basic(a, b, fa, fb, fm),
       _simpson_basic(a, c, fa, fm, fd) + _simpson_basic(c, b, fm, fb, fe) >>

Estimates(f, a, c, b) ==
    SimpsonPair(a, c, b, CallF(f, a)[1], CallF(f, DivI(a + c, 2))[1], CallF(f, c)[1],
                CallF(f, DivI(c + b, 2))[1], CallF(f, b)[1])

\* the acceptance rule for estimates p = <<S, S2>> at depth d under tolerance t
Accepts(p, t, d, D) == d >= D \/ Abs(p[2] - p[1]) <= 15 * t

Contribution(p) == p[2] + DivI(p[2] - p[1], 15)

\* the terminal intervals <<a, b, d, contribution>> the rule yields, left to
\* right, on a domain where f is defined at every point examined
RECURSIVE RuleRun(_, _, _, _, _, _)
RuleSplit(f, a, c, b, t, D, d, p) ==
    IF Accepts(p, t, d, D) THEN << <<a, b, d, Contribution(p)>> >>
    ELSE RuleRun(f, a, c, DivI(t, 2), D, d + 1) \o RuleRun(f, c, b, DivI(t, 2), D, d + 1)

RuleRun(f, a, b, t, D, d) ==
    RuleSplit(f, a, DivI(a + b, 2), b, t, D, d, Estimates(f, a, DivI(a + b, 2), b))

RECURSIVE SumContributions(_)
SumContributions(rule) ==
    IF rule = <<>> THEN 0 ELSE Head(rule)[4] + SumContributions(Tail(rule))

MatchesRule(r, rule) ==
    /\ r.intervals = [i \in 1..Len(rule) |-> <<rule[i][1], rule[i][2], rule[i][3]>>]
    /\ r.value = SumContributions(rule)

\* C12: the intervals a successful run records are exactly those the rule
\* "terminal iff d >= D or |S2 - S| <= 15 t" yields, each once as (a, b, d),
\* and the volume is the sum of S2 + (S2 - S)/15 over them.
C12_AcceptanceRule ==
    (ret # <<>> /\ ret[1].ok) =>
        MatchesRule(ret[1], RuleRun(call.f, call.a, call.b, call.tol, call.max_depth, 0))

\* the tolerance an interval of depth d is tested against
RECURSIVE TolAt(_, _)
TolAt(t, d) == IF d = 0 THEN t ELSE TolAt(DivI(t, 2), d - 1)

WithinTolerance(f, iv, t) ==
    Accepts(Estimates(f, iv[1], DivI(iv[1] + iv[2], 2), iv[2]), TolAt(t, iv[3]), iv[3], iv[3] + 1)

\* a successful run with one interval accepted below the depth limit and
\* another accepted at the limit although its estimates still differ by
\* more than 15 t
C12_Witness ==
    /\ ret # <<>>
    /\ ret[1].ok
    /\ \E i, j \in 1..Len(ret[1].intervals) :
          /\ ret[1].intervals[i][3] < call.max_depth
          /\ WithinTolerance(call.f, ret[1].intervals[i], call.tol)
          /\ ret[1].intervals[j][3] = call.max_depth
          /\ ~WithinTolerance(call.f, ret[1].intervals[j], call.tol)

\* the width of an interval of depth d is the 2^d-th part of the domain's:
\* exactly where the bisections are exact, and to within one unit per
\* interval where a midpoint was truncated
DyadicWidth(iv, a, b) ==
    /\ Abs((iv[2] - iv[1]) * 2^iv[3] - (b - a)) < 2^iv[3]
    /\ (b - a) % 2^iv[3] = 0 => (iv[2] - iv[1]) * 2^iv[3] = b - a

RECURSIVE SumTolerances(_, _)
SumTolerances(intervals, t) ==
    IF intervals = <<>> THEN 0
    ELSE TolAt(t, Head(intervals)[3]) + SumTolerances(Tail(intervals), t)

\* the sum over the intervals of 2^(12 - d): 2^12 when the intervals are the
\* leaves of a tree of bisections
RECURSIVE SumShares(_)
SumShares(intervals) ==
    IF intervals = <<>> THEN 0
    ELSE 2^(DefaultMaxDepth - Head(intervals)[3]) + SumShares(Tail(intervals))

\* C13: the terminal intervals of a successful run are the leaves of a tree
\* of bisections: an interval of depth d has the 2^d-th part of the domain's
\* width, was accepted against tol / 2^d unless the depth limit accepted it,
\* and the tolerances of all terminal intervals sum to at most tol.
C13_Halving ==
    (ret # <<>> /\ ret[1].ok) =>
        /\ \A i \in 1..Len(ret[1].intervals) :
              /\ DyadicWidth(ret[1].intervals[i], call.a, call.b)
              /\ ret[1].intervals[i][3] < call.max_depth =>
                     WithinTolerance(call.f, ret[1].intervals[i], call.tol)
        /\ SumShares(ret[1].intervals) = 2^DefaultMaxDepth
        /\ SumTolerances(ret[1].intervals, call.tol) <= call.tol

\* a successful run that split twice or more and accepted intervals of
\* different depths below the depth limit
C13_Witness ==
    /\ ret # <<>>
    /\ ret[1].ok
    /\ \E i, j \in 1..Len(ret[1].intervals) :
          /\ ret[1].intervals[i][3] >= 2
          /\ ret[1].intervals[i][3] < call.max_depth
          /\ ret[1].intervals[j][3] >= 1
          /\ ret[1].intervals[j][3] < ret[1].intervals[i][3]
    /\ SumTolerances(ret[1].intervals, call.tol) <= call.tol

DepthBounded(r, D) ==
    /\ \A i \in 1..Len(r.intervals) : r.intervals[i][3] \in 0..D
    /\ r.ok => (Len(r.intervals) >= 1 /\ Len(r.intervals) <= 2^D)

\* C14: when a run has ended, with a result or a failure, the intervals it
\* recorded have depths between 0 and D (no call was made below depth D),
\* and a successful run has recorded at least 1 and at most 2^D of them.
C14_Bounded == ret # <<>> => DepthBounded(ret[1], call.max_depth)

\* a successful run in which every interval reached the depth limit D >= 2,
\* and so recorded 2^D intervals
C14_Witness ==
    /\ ret # <<>>
    /\ ret[1].ok
    /\ call.max_depth >= 2
    /\ Len(ret[1].intervals) = 2^call.max_depth

---------------------------------------------------------------------------
(* A custom function with a pole: 1/x entered on [-7, 1]                   *)

MaxGridSlices == 14

RECURSIVE TypeText(_, _)
TypeText(s, text) ==
    IF text = <<>> THEN s
    ELSE TypeText(append_input_character(s, Head(text)), Tail(text))

\* the three entries of the custom function workflow, each closed by Enter
EnterCustom(s, expr, start, end) ==
    submit_input(TypeText(
        submit_input(TypeText(
            submit_input(TypeText(begin_custom_function_entry(s), expr)),
            start)),
        end))

\* the domains handed to set_domain while 1/x is the active function
PoleDomains ==
    { <<-FxOne, FxOne>>, <<-3 * FxOne, FxOne>>, <<-7 * FxOne, FxOne>>,
      <<FxOne, 2 * FxOne>>, <<FxOne, FxOne>> }

InitPole ==
    /\ state = EnterCustom(create_initial_state,
                           <<"1", "/", "x">>, <<"-", "7">>, <<"1">>)
    /\ call = <<>>
    /\ ret = <<>>

PoleSlices ==
    /\ \E delta \in {1, -1, 2, -2} : state' = adjust_slice_count(state, delta)
    /\ state'.slice_count <= MaxGridSlices
    /\ UNCHANGED <<call, ret>>

PoleSetDomain ==
    /\ active_function(state).evaluator = Reciprocal
    /\ \E d \in PoleDomains : state' = set_domain(state, d[1], d[2])
    /\ UNCHANGED <<call, ret>>

PoleCycle ==
    /\ \E step \in {-1, 1} : state' = cycle_function(state, step)
    /\ UNCHANGED <<call, ret>>

PoleReset ==
    /\ state' = reset_state(state)
    /\ UNCHANGED <<call, ret>>

PoleAdaptive ==
    /\ state' = run_adaptive_refinement(state)
    /\ UNCHANGED <<call, ret>>

PoleApply ==
    /\ state' = apply_adaptive_slice_recommendation(state)
    /\ UNCHANGED <<call, ret>>

NextPole ==
    \/ PoleSlices
    \/ PoleSetDomain
    \/ PoleCycle
    \/ PoleReset
    \/ PoleAdaptive
    \/ PoleApply

SpecPole == InitPole /\ [][NextPole]_vars

\* C5: a run_adaptive_refinement step whose integration fails leaves
\* adaptive_volume None, adaptive_intervals empty, adaptive_error None and
\* adaptive_recommended_slices None, and reports the failure, also when
\* terminal intervals had been recorded before the failing evaluation.
C5_AbortWholesale ==
    [][ (PoleAdaptive /\ ~FreshRun(state).ok) =>
            (CacheCleared(state') /\ state'.message.text = "Adaptive refinement failed")
      ]_vars

\* a failed run that had recorded an interval before the evaluation failed
C5_Witness ==
    /\ state.message.text = "Adaptive refinement failed"
    /\ CacheCleared(state)
    /\ ~FreshRun(state).ok
    /\ Len(FreshRun(state).intervals) >= 1

\* the active function raises or is not finite at a midpoint of the grid
MidpointFails(s) == \E i \in 0..(s.slice_count - 1) : BadSlice(SliceRadii(s), i)

\* the steps that end in recompute_volume
RecomputeStep ==
    \/ PoleSlices
    \/ PoleSetDomain
    \/ PoleCycle
    \/ PoleReset
    \/ (PoleApply /\ state.adaptive_recommended_slices # None)

PoleActive(s) ==
    /\ active_function(s).evaluator = Reciprocal
    /\ s.domain_start < 0
    /\ 0 < s.domain_end

\* C7 as claimed: for 1/x on a domain with a < 0 < b the fixed-grid
\* estimate fails for every slice count.
C7_AlwaysFails == PoleActive(state) => state.approx_volume = NaN

\* some midpoint a + (i + 0.5) * (b - a) / n is exactly 0
ZeroMidpoint(a, b, n) == \E i \in 0..(n - 1) : 2 * n * a + (2 * i + 1) * (b - a) = 0

\* C7 amended: for 1/x on a domain with a < 0 < b the fixed-grid estimate
\* fails exactly when one of the slice midpoints is 0; otherwise a finite
\* volume is stored.
C7_FailsAtZeroMidpoint ==
    PoleActive(state) =>
        (state.approx_volume = NaN
            <=> ZeroMidpoint(state.domain_start, state.domain_end, state.slice_count))

\* 1/x on [-1, 1] with an even slice count: a finite volume is stored
C7_Witness ==
    /\ PoleActive(state)
    /\ state.domain_start = -FxOne
    /\ state.domain_end = FxOne
    /\ state.approx_volume # NaN
    /\ state.approx_volume > 0

---------------------------------------------------------------------------
(* The view's query of the slices: one call of slice_samples               *)

DrawDomains == { <<-FxOne, FxOne>>, <<FxOne, 2 * FxOne>>, <<0, 2 * FxOne>> }

\* session states reached through the model's operations: the four functions
\* (1/x entered as a custom function) on three domains at every slice count,
\* the constant 1 entered on [10, 11] followed by the key "]", and x**2
\* entered on [0, 2] with the slice count lowered to 4
DrawStates ==
    { set_domain(
          adjust_slice_count(
              cycle_function(
                  EnterCustom(create_initial_state,
                              <<"1", "/", "x">>, <<"-", "7">>, <<"1">>), k),
              n - 12),
          d[1], d[2]) : k \in 0..3, n \in 4..MaxGridSlices, d \in DrawDomains }
    \cup
    { adjust_slice_count(
          adjust_domain(
              EnterCustom(create_initial_state, <<"1">>, <<"1", "0">>, <<"1", "1">>),
              0, FxOne \div 10),
          n - 12) : n \in 4..MaxGridSlices }
    \cup
    { adjust_slice_count(
          EnterCustom(create_initial_state, <<"x", "*", "*", "2">>, <<"0">>, <<"2">>),
          -8) }

InitDraw ==
    /\ state \in DrawStates
    /\ call = <<>>
    /\ ret = <<>>

Draw ==
    /\ ret = <<>>
    /\ ret' = <<slice_samples(state).slices>>
    /\ state' = slice_samples(state).state
    /\ UNCHANGED call

NextDraw == Draw

SpecDraw == InitDraw /\ [][NextDraw]_vars

\* the list has one entry per slice: the midpoint start + (i + 0.5) * dx,
\* strictly increasing, with the radius |f(x_mid)| >= 0
SlicesComplete(s, slices) ==
    /\ Len(slices) = s.slice_count
    /\ \A i \in 1..Len(slices) :
          /\ slices[i][1] = SliceMidpoint(s.domain_start, s.domain_end - s.domain_start,
                                          s.slice_count, i - 1)
          /\ slices[i][2] = Abs(CallEvaluator(active_function(s).evaluator, slices[i][1])[1])
          /\ slices[i][2] >= 0
    /\ \A i \in 1..(Len(slices) - 1) : slices[i][1] < slices[i + 1][1]

\* C16: where the fixed-grid estimate succeeds, slice_samples returns exactly
\* slice_count entries (x_mid, |f(x_mid)|) with x_mid strictly increasing; where
\* a midpoint fails it returns the empty list.
C16_SliceSamples ==
    ret # <<>> =>
        IF MidpointFails(state) THEN ret[1] = <<>>
        ELSE SlicesComplete(state, ret[1])

\* the scenario: x**2 active on [0, 2] with 4 slices, its slices drawn
SquareScenario ==
    /\ active_function(state).evaluator = Compiled(ast_parse(<<"x", "*", "*", "2">>))
    /\ state.domain_start = 0
    /\ state.domain_end = 2 * FxOne
    /\ state.slice_count = 4
    /\ ret # <<>>

\* midpoints 0.25, 0.75, 1.25, 1.75 (dx = 0.5) with radii 0.0625, 0.5625,
\* 1.5625, 3.0625
SquareSlices ==
    << <<FxOne \div 4, FxOne \div 16>>,
       <<(3 * FxOne) \div 4, (9 * FxOne) \div 16>>,
       <<(5 * FxOne) \div 4, (25 * FxOne) \div 16>>,
       <<(7 * FxOne) \div 4, (49 * FxOne) \div 16>> >>

\* the volume is within 0.01 of the reference
VolumeNear(reference) == Abs(state.approx_volume - reference) <= FxOne \div 100

\* C18 as stated: in the scenario the slices are the four listed and the
\* volume is within 0.01 of 19.57.
C18_Reference ==
    SquareScenario => ret[1] = SquareSlices /\ VolumeNear((1957 * FxOne) \div 100)

\* C18: for x^2 on [0, 2] with 4 slices the midpoints are 0.25, 0.75, 1.25,
\* 1.75, the radii 0.0625, 0.5625, 1.5625, 3.0625, and the volume
\* pi * 0.5 * (sum of the squared radii) is within 0.01 of 19.07.
C18_Scenario ==
    SquareScenario => ret[1] = SquareSlices /\ VolumeNear((1907 * FxOne) \div 100)

C18_Witness == SquareScenario /\ state.approx_volume > 19 * FxOne

---------------------------------------------------------------------------
(* The custom function workflow of the session                             *)

\* Enter at the domain_end stage reaches _sample_for_validation (the text
\* is a number above the pending start) and the sampling raises
ValidationRaises(s) ==
    /\ s.input_stage = "domain_end"
    /\ float(Strip(s.input_buffer)) # None
    /\ float(Strip(s.input_buffer))[1] > s.pending_domain_start[1]
    /\ s.pending_evaluator # None /\ s.pending_expression # None
    /\ ~_sample_for_validation(s.pending_evaluator[1], s.pending_domain_start[1],
                               float(Strip(s.input_buffer))[1]).ok

\* C21: when the submit of the domain end fails in _sample_for_validation,
\* the message left behind is the evaluation-failure message, the workflow
\* is idle and no function has been added.
C21_FailureSurfaced ==
    [][(ValidationRaises(state) /\ state' = submit_input(state))
          => /\ state'.message.text = "Could not evaluate function on domain"
             /\ state'.input_stage = "idle"
             /\ state'.functions = state.functions]_vars

---------------------------------------------------------------------------
(* The rotation under timer ticks alone                                    *)

\* each starter function at rest, looping, playing as a video, and after a
\* click on each slice of the graph in either mode
PlaybackStates ==
    LET rest == { cycle_function(create_initial_state, k) : k \in 0..2 }
        modes == rest \cup { toggle_animation(s) : s \in rest }
                      \cup { start_video_playback(s) : s \in rest }
    IN  modes \cup { mouse_pressed(s, "", TRUE, <<i>>) :
                        s \in modes, i \in 0..(create_initial_state.slice_count - 1) }

InitPlayback ==
    /\ state \in PlaybackStates
    /\ call = <<>>
    /\ ret = <<>>

TimerFired ==
    /\ state' = timer_fired(state)
    /\ UNCHANGED <<call, ret>>

NextPlayback == TimerFired

\* the timer keeps firing
SpecPlayback == InitPlayback /\ [][NextPlayback]_vars /\ WF_vars(NextPlayback)

AngleInRange(s) == 0 <= s.rotation_angle /\ s.rotation_angle <= FullTurn

PlaybackDone(s) ==
    s.rotation_angle = FullTurn /\ ~s.is_animating /\ s.play_mode = "loop"

\* C22: a video playback is a single revolution: under timer ticks alone
\* it leads to rotation_angle = 360 with the animation stopped and play_mode
\* back to "loop"; while play_mode is "video" a tick only raises the angle,
\* never past 360; and the angle is always within 0..360.
C22_SingleRevolution ==
    /\ [](AngleInRange(state))
    /\ [][state.play_mode = "video"
             => /\ state'.rotation_angle > state.rotation_angle
                /\ state'.rotation_angle <= FullTurn]_vars
    /\ ((state.play_mode = "video") ~> PlaybackDone(state))

\* the end of a playback of the second starter function
C22_Witness ==
    /\ PlaybackDone(state)
    /\ state.message.text = "Video playback complete."
    /\ state.current_index = 1

---------------------------------------------------------------------------
(* The slice count under the slice keys, the reset and the recommendation  *)

\* numbers of intervals of a successful refinement, up to more than 120
IntervalCounts == { 1, 60, 121, 229 }

\* n intervals of equal width over the domain of s
EvenIntervals(s, n) ==
    [i \in 1..n |->
        << s.domain_start + DivI((i - 1) * (s.domain_end - s.domain_start), n),
           s.domain_start + DivI(i * (s.domain_end - s.domain_start), n), 8 >>]

\* the initial session, as it is and after a refinement that returned the
\* volume of the fixed grid over n intervals (lines 737-745)
SliceStates ==
    { create_initial_state }
      \cup { StoreAdaptive(create_initial_state,
                           Returned(create_initial_state.approx_volume,
                                    EvenIntervals(create_initial_state, n))) :
               n \in IntervalCounts }

InitSlices ==
    /\ state \in SliceStates
    /\ call = <<>>
    /\ ret = <<>>

\* key_pressed, lines 80-87
SliceKey ==
    /\ \E key \in {"+", "=", "-", "_", "up", "down"} : state' = key_pressed(state, key)
    /\ UNCHANGED <<call, ret>>

\* key_pressed, lines 102-103
SliceReset ==
    /\ state' = key_pressed(state, "r")
    /\ UNCHANGED <<call, ret>>

\* key_pressed, lines 96-97, and the button of mouse_pressed, lines 137-139
SliceApply ==
    /\ \/ state' = key_pressed(state, "g")
       \/ state' = mouse_pressed(state, "applySlices", FALSE, None)
    /\ UNCHANGED <<call, ret>>

NextSlices ==
    \/ SliceKey
    \/ SliceReset
    \/ SliceApply

SpecSlices == InitSlices /\ [][NextSlices]_vars

\* C23: slice_count is an integer within 4..240 in every state, whatever
\* the sequence of slice keys, resets and applied recommendations, a
\* recommendation above 240 included.
C23_SliceCount == state.slice_count \in 4..240

\* a recommendation above 240 was applied
C23_Witness ==
    /\ state.adaptive_recommended_slices # None
    /\ state.adaptive_recommended_slices[1] > 240
    /\ state.slice_count = 240
    /\ state.message.text = "Applied adaptive slice count"

---------------------------------------------------------------------------
(* The session under keys, mouse presses and timer ticks: the animation    *)
(* and the custom function workflow together; `call` counts the ticks      *)

\* the session is explored up to this many ticks of a running animation
MaxTicks == 2

\* and up to this many custom functions
MaxStageCustom == 2

StageKeys ==
    { "left", "right", "space", "n", "v", "r", "enter", "backspace", "escape",
      "0", "1", "x", "slash" }

\* the texts typed into the workflow: the constant 1 and 1/x, on [0, 1]
StageExpressions == { <<"1">>, <<"1", "/", "x">> }

StageNumbers == { <<"0">>, <<"1">> }

StagePrefix(s) ==
    \E t \in (IF s.input_stage = "function" THEN StageExpressions ELSE StageNumbers) :
        IsPrefix(s.input_buffer, t)

StageBounds(s) ==
    /\ s.custom_count + (IF s.input_stage # "idle" THEN 1 ELSE 0) <= MaxStageCustom
    /\ s.input_stage # "idle" => StagePrefix(s)

\* the session after k timer ticks
RECURSIVE Ticks(_, _)
Ticks(s, k) == IF k = 0 THEN s ELSE Ticks(timer_fired(s), k - 1)

\* a video playback of the initial session one tick before its end
LateVideo == Ticks(start_video_playback(create_initial_state), 71)

\* the session at its start, and late in a video playback
InitStage ==
    /\ state \in { create_initial_state, LateVideo }
    /\ call = 0
    /\ ret = <<>>

StageKey ==
    /\ \E key \in StageKeys : state' = key_pressed(state, key)
    /\ StageBounds(state')
    /\ UNCHANGED <<call, ret>>

\* a press on the play or add-function button, on the first or last slice
\* of the graph, or outside both
StageMouse ==
    /\ \E button_hit \in {"play", "addFunction", ""}, in_graph \in BOOLEAN,
          focus_index \in {None, <<0>>, <<state.slice_count - 1>>} :
           state' = mouse_pressed(state, button_hit, in_graph, focus_index)
    /\ StageBounds(state')
    /\ UNCHANGED <<call, ret>>

StageTimer ==
    /\ state.is_animating
    /\ call < MaxTicks
    /\ state' = timer_fired(state)
    /\ call' = call + 1
    /\ UNCHANGED ret

NextStage ==
    \/ StageKey
    \/ StageMouse
    \/ StageTimer

SpecStage == InitStage /\ [][NextStage]_vars

\* C24: the pending data of the workflow agree with its stage: at
\* domain_end the pending start is present; at domain_start and domain_end
\* the pending expression and evaluator are present; when idle the three
\* pending fields are None and the input buffer is empty.
C24_PendingConsistent ==
    /\ state.input_stage = "domain_end" => state.pending_domain_start # None
    /\ state.input_stage \in {"domain_start", "domain_end"} =>
           state.pending_expression # None /\ state.pending_evaluator # None
    /\ state.input_stage = "idle" =>
           /\ state.pending_expression = None
           /\ state.pending_evaluator = None
           /\ state.pending_domain_start = None
           /\ state.input_buffer = <<>>

\* idle again after a cancelled entry that followed a completed one
C24_Witness ==
    /\ state.input_stage = "idle"
    /\ state.message.text = "Custom function entry cancelled."
    /\ state.custom_count = 1
    /\ state.pending_domain_start = None

\* every key the controller dispatches on, the typed characters, and a key
\* it does not know
ControllerKeys ==
    { "left", "a", "right", "d", "[", "]", "{", "}", "+", "=", "-", "_", "up",
      "down", "space", "n", "N", "v", "V", "A", "g", "G", "t", "T", "3", "r", "p",
      "enter", "backspace", "escape", "0", "1", "x", "slash", "period", "tab" }

ControllerButtons ==
    { "play", "toggle3d", "addFunction", "adaptive", "tolerance", "applySlices", "" }

\* the fields an entry in progress must leave alone
SessionFrame(s) ==
    << s.current_index, s.functions, s.domain_start, s.domain_end, s.slice_count,
       s.approx_volume, s.adaptive_tolerance, s.adaptive_volume,
       s.adaptive_intervals, s.adaptive_error, s.adaptive_recommended_slices,
       s.is_animating, s.rotation_angle, s.play_mode >>

\* Enter at the domain_end stage that adds the function
Completes(s, key) ==
    /\ key = "enter"
    /\ s.input_stage = "domain_end"
    /\ key_pressed(s, key).custom_count = s.custom_count + 1

\* while an entry is in progress no key but the completing Enter, and no
\* mouse press, changes the session's frame
EntryFrame(s) ==
    /\ \A key \in ControllerKeys :
           Completes(s, key) \/ SessionFrame(key_pressed(s, key)) = SessionFrame(s)
    /\ \A button_hit \in ControllerButtons, in_graph \in BOOLEAN,
          focus_index \in {None, <<0>>, <<s.slice_count - 1>>} :
           mouse_pressed(s, button_hit, in_graph, focus_index) = s

StageAfter ==
    [idle |-> "function", function |-> "domain_start",
     domain_start |-> "domain_end", domain_end |-> "idle"]

\* a step keeps the stage, moves it to the next one, or is the Escape key
StageOrder ==
    \/ state'.input_stage = state.input_stage
    \/ state'.input_stage = StageAfter[state.input_stage]
    \/ state'.input_stage = "idle" /\ state' = key_pressed(state, "escape")

\* C25: while a custom function is being entered no key press or mouse
\* press changes the function list and index, the domain, the slice count,
\* the volume, the tolerance, the adaptive cache or the animation state,
\* except the Enter that completes the domain_end stage; and the stages
\* follow idle, function, domain_start, domain_end, idle, with Escape
\* returning to idle from any stage.
C25_EntryFrame ==
    /\ [](state.input_stage # "idle" => EntryFrame(state))
    /\ [][StageOrder]_vars

\* the end of the domain is being typed for a second custom function while
\* a video is playing
C25_Witness ==
    /\ state.input_stage = "domain_end"
    /\ state.input_buffer = <<"1">>
    /\ state.custom_count = 1
    /\ state.play_mode = "video"
    /\ state.rotation_angle > 0

\* the index is within the list, the list starts with the three starter
\* functions, custom_count counts the rest, and the k-th added function is
\* named "Custom k"
FunctionsWellFormed(s) ==
    /\ 0 <= s.current_index /\ s.current_index < Len(s.functions)
    /\ SubSeq(s.functions, 1, 3) = _build_default_functions
    /\ s.custom_count = Len(s.functions) - 3
    /\ \A k \in 1..s.custom_count : s.functions[3 + k].name = "Custom " \o ToString(k)
    /\ \A i, j \in 1..Len(s.functions) :
           i # j => s.functions[i].name # s.functions[j].name

\* a step leaves the list alone or appends one function to it
FunctionsGrow ==
    \/ state'.functions = state.functions
    \/ /\ Len(state'.functions) = Len(state.functions) + 1
       /\ SubSeq(state'.functions, 1, Len(state.functions)) = state.functions

\* an entry that ends without a function added (cancelled, or failed in the
\* validation) leaves the list, the index and the count as they were
EntryDropped ==
    (state.input_stage # "idle" /\ state'.input_stage = "idle"
        /\ state'.custom_count = state.custom_count)
      => /\ state'.functions = state.functions
         /\ state'.current_index = state.current_index

\* C26: current_index is always an index of the functions list, the list
\* only grows and keeps the three starter functions in front, custom_count
\* is len(functions) - 3 so that the added functions are named "Custom 1",
\* "Custom 2", ... distinctly, and a cancelled or failed entry changes none
\* of the three.
C26_Functions ==
    /\ [](FunctionsWellFormed(state))
    /\ [][FunctionsGrow /\ EntryDropped]_vars

\* two custom functions added, the first of them selected again
C26_Witness ==
    /\ Len(state.functions) = 5
    /\ state.custom_count = 2
    /\ state.current_index = 3
    /\ active_function(state).name = "Custom 1"

\* C27: play_mode "video" implies is_animating: whatever stops the
\* animation (the tick that ends a revolution, toggle_animation,
\* cycle_function, reset_state, the completion of a custom function) also
\* sets play_mode back to "loop".
C27_VideoAnimates == state.play_mode = "video" => state.is_animating

\* a playback has ended at the full turn after a tick of the timer
C27_Witness ==
    /\ PlaybackDone(state)
    /\ state.message.text = "Video playback complete."
    /\ call > 0

---------------------------------------------------------------------------
(* The stored volume against the midpoint disk sum of the session state    *)

\* the terms pi * f(x_mid)^2 * dx of slices 0 .. i added up in loop order
RECURSIVE DiskSum(_, _)
DiskSum(s, i) ==
    IF i < 0 THEN 0
    ELSE DiskSum(s, i - 1)
           + SliceTerm(CallEvaluator(active_function(s).evaluator,
                                     SliceMidpoint(s.domain_start,
                                                   s.domain_end - s.domain_start,
                                                   s.slice_count, i))[1],
                       s.domain_end - s.domain_start, s.slice_count)

\* the midpoint disk sum of the active function over the current domain with
\* the current slice count, or the failure marker
MidpointDiskSum(s) ==
    IF MidpointFails(s) THEN NaN ELSE DiskSum(s, s.slice_count - 1)

\* C20: after every operation of the session approx_volume is the midpoint
\* disk sum of the active function over the current domain with the current
\* slice count, or the failure marker when a midpoint evaluation fails.
C20_VolumeCurrent == state.approx_volume = MidpointDiskSum(state)

\* a custom function is active on a domain other than the one it was entered
\* with, the slice count is the applied recommendation of a refinement, and
\* the volume is present
C20_Witness ==
    /\ state.current_index >= Len(_build_default_functions)
    /\ <<state.domain_start, state.domain_end>> # active_function(state).suggested_domain
    /\ state.adaptive_recommended_slices = <<state.slice_count>>
    /\ state.approx_volume # NaN
    /\ state.approx_volume > 0

---------------------------------------------------------------------------
(* Both estimators on a constant function entered as a custom function     *)

ConstantTexts == { <<"0">>, <<"1">>, <<"2">>, <<"-", "1">> }

ConstantDomains == { <<0, FxOne>>, <<-FxOne, 2 * FxOne>>, <<0, 2 * FxOne>> }

\* the constant entered on [0, 1], then moved to the domain and slice count
ConstantStates ==
    { adjust_slice_count(
          set_domain(EnterCustom(create_initial_state, c, <<"0">>, <<"1">>), d[1], d[2]),
          n - 12) : c \in ConstantTexts, d \in ConstantDomains,
                    n \in (4..MaxGridSlices) \cup {240} }

InitConstant ==
    /\ state \in ConstantStates
    /\ call = <<>>
    /\ ret = <<>>

ConstantTolerance ==
    /\ state' = cycle_adaptive_tolerance(state)
    /\ UNCHANGED <<call, ret>>

ConstantAdaptive ==
    /\ state' = run_adaptive_refinement(state)
    /\ UNCHANGED <<call, ret>>

\* the integrator called directly, at the smaller depth limits
ConstantIntegrate ==
    /\ ret = <<>>
    /\ \E D \in 0..MaxDepthDrawn :
          ret' = <<_adaptive_simpson_integrate(
                       IntegrandOf(active_function(state).evaluator),
                       state.domain_start, state.domain_end,
                       state.adaptive_tolerance, D)>>
    /\ UNCHANGED <<state, call>>

NextConstant ==
    \/ ConstantTolerance
    \/ ConstantAdaptive
    \/ ConstantIntegrate

SpecConstant == InitConstant /\ [][NextConstant]_vars

\* the constant c the active function returns, and pi * c^2 * (b - a)
ConstantOf(s) == CallEvaluator(active_function(s).evaluator, 0)[1]

ConstantVolume(s) ==
    FMul(FMul(Pi, FMul(ConstantOf(s), ConstantOf(s))[1])[1],
         s.domain_end - s.domain_start)[1]

\* within 0.004 of the exact volume: the truncation of (b - a) / 6 and of the
\* products to the fixed-point unit
NearConstantVolume(v, s) == Abs(v - ConstantVolume(s)) <= FxOne \div 250

WholeDomainOnly(intervals, s) == intervals = << <<s.domain_start, s.domain_end, 0>> >>

\* C17: for a constant function the fixed-grid volume is pi * c^2 * (b - a)
\* at every slice count (each slice term truncated to the unit), and the
\* adaptive estimate is the same volume from the whole domain accepted as
\* one interval of depth 0, at every tolerance and depth limit.
C17_Constant ==
    /\ Abs(state.approx_volume - ConstantVolume(state)) <= state.slice_count
    /\ state.adaptive_volume # None =>
           /\ WholeDomainOnly(state.adaptive_intervals, state)
           /\ NearConstantVolume(state.adaptive_volume[1], state)
    /\ ret # <<>> =>
           /\ ret[1].ok
           /\ WholeDomainOnly(ret[1].intervals, state)
           /\ NearConstantVolume(ret[1].value, state)

\* the constant 2 on [-1, 2]: both estimates present, after the tolerance
\* was changed
C17_Witness ==
    /\ ConstantOf(state) = 2 * FxOne
    /\ state.domain_start = -FxOne
    /\ state.approx_volume > 37 * FxOne
    /\ state.adaptive_volume # None
    /\ state.adaptive_tolerance = FxOne \div 2000
    /\ ret # <<>>

---------------------------------------------------------------------------
(* The Quadratic Bowl on [0, 2]: the slice count doubled from 12 to 96,    *)
(* against the adaptive estimate kept in ret                               *)

\* three doublings of the default slice count: 12, 24, 48, 96
LastDoubled == 8 * create_initial_state.slice_count

InitDoubling ==
    /\ state = create_initial_state
    /\ call = <<>>
    /\ ret = <<>>

\* the slice count doubled by one adjust_slice_count
DoubleSlices ==
    /\ 2 * state.slice_count <= LastDoubled
    /\ state' = adjust_slice_count(state, state.slice_count)
    /\ UNCHANGED <<call, ret>>

\* the adaptive estimate at the current tolerance, kept for the comparison
DoublingRefine ==
    /\ state' = run_adaptive_refinement(state)
    /\ ret' = <<run_adaptive_refinement(state).adaptive_volume>>
    /\ call' = <<state.adaptive_tolerance>>

DoublingTolerance ==
    /\ state' = cycle_adaptive_tolerance(state)
    /\ UNCHANGED <<call, ret>>

NextDoubling ==
    \/ DoubleSlices
    \/ DoublingRefine
    \/ DoublingTolerance

SpecDoubling == InitDoubling /\ [][NextDoubling]_vars

\* |fixed grid - adaptive| for the estimate kept in ret
DifferenceOf(s, adaptive) == Abs(s.approx_volume - adaptive[1])

IsDoubling == state'.slice_count = 2 * state.slice_count

\* C19: for (x - 1)^2 + 0.5 over [0, 2], each doubling of the slice count
\* from 12 through 24 and 48 to 96 strictly decreases the absolute
\* difference between the fixed-grid estimate and the adaptive estimate.
C19_Doubling ==
    [][(IsDoubling /\ ret # <<>> /\ ret[1] # None)
          => DifferenceOf(state', ret[1]) < DifferenceOf(state, ret[1])]_vars

\* 96 slices reached, with a difference from the adaptive estimate that is
\* positive and below 0.002
C19_Witness ==
    /\ state.slice_count = LastDoubled
    /\ active_function(state).name = "Quadratic Bowl"
    /\ state.domain_start = 0 /\ state.domain_end = 2 * FxOne
    /\ ret # <<>> /\ ret[1] # None
    /\ DifferenceOf(state, ret[1]) > 0
    /\ DifferenceOf(state, ret[1]) < FxOne \div 500

---------------------------------------------------------------------------
(* The compiler alone: one call of the validation and wrapping of a tree   *)

\* nodes without operands
Atoms ==
    { Constant("int", FxOne), Constant("float", FxOne \div 2),
      Constant("bool", FxOne), Constant("NoneType", 0), Constant("str", 0),
      Name("x"), Name("pi"), Name("sin"), Name("foo"),
      Other("Attribute", <<Name("x")>>),
      Other("Subscript", <<Name("x"), Constant("int", 0)>>),
      Other("Lambda", <<Name("x")>>) }

Operands == { Name("x"), Constant("int", 2 * FxOne) }

Targets ==
    { Name("sin"), Name("log"), Name("foo"), Name("x"),
      Other("Attribute", <<Name("math")>>) }

ArgLists ==
    { <<>>, <<Other("Starred", <<Name("x")>>)>> }
      \cup { <<a>> : a \in Atoms }
      \cup { <<a, b>> : a \in Atoms, b \in Operands }

\* trees with one operator or call
Shallow ==
    { UnaryOp(op, a) : op \in {"USub", "Not", "Invert"}, a \in Atoms }
      \cup { BinOp(a, op, b) : a \in Atoms, op \in {"Add", "Pow", "FloorDiv", "BitXor"},
                               b \in Operands }
      \cup { Call(f, args, kw) : f \in Targets, args \in ArgLists, kw \in {0, 1} }

\* a shallow tree as an operand or as a call argument
Nested ==
    { UnaryOp("USub", t) : t \in Shallow }
      \cup { BinOp(Name("x"), "Mult", t) : t \in Shallow }
      \cup { Call(Name("sqrt"), <<t>>, 0) : t \in Shallow }

Trees == { Expression(t) : t \in Atoms \cup Shallow \cup Nested }

InitCompile ==
    /\ state = create_initial_state
    /\ call \in Trees
    /\ ret = <<>>

Compile ==
    /\ ret = <<>>
    /\ ret' = <<CompileTree(call)>>
    /\ UNCHANGED <<state, call>>

NextCompile == Compile

SpecCompile == InitCompile /\ [][NextCompile]_vars

\* some call in the tree has other than one positional argument
RECURSIVE HasBadArity(_)
HasBadArity(node) ==
    \/ node.t = "Call" /\ Len(node.kids) # 1
    \/ \E i \in 1..Len(node.kids) : HasBadArity(node.kids[i])

\* C8: a tree holding a call that does not have exactly one positional
\* argument fails compilation.
C8_ArityChecked == (ret # <<>> /\ HasBadArity(call)) => ~ret[1].ok

\* the node itself is one of the forms compilation must reject
ForbiddenHere(node) ==
    \/ node.t \in {"Attribute", "Subscript", "Lambda"}
    \/ /\ node.t = "Call"
       /\ \/ node.func[1].t # "Name"
          \/ node.func[1].a \notin _ALLOWED_FUNCTIONS
          \/ node.kw > 0
          \/ \E i \in 1..Len(node.kids) : node.kids[i].t = "Starred"
    \/ node.t = "Name" /\ node.a \notin _ALLOWED_FUNCTIONS \cup _ALLOWED_CONSTANTS \cup {"x"}
    \/ node.t = "BinOp" /\ node.a \notin {"Add", "Sub", "Mult", "Div", "Mod", "Pow"}
    \/ node.t = "UnaryOp" /\ node.a \notin {"UAdd", "USub"}

RECURSIVE HasForbidden(_)
HasForbidden(node) ==
    \/ ForbiddenHere(node)
    \/ \E i \in 1..Len(node.kids) : HasForbidden(node.kids[i])

\* C9: a tree holding, at any depth, an attribute access, a subscript, a
\* lambda, a call whose target is not a whitelisted function name, a call
\* with keyword or starred arguments, an unknown identifier or an operator
\* outside + - * / % ** and unary + - is rejected, and no callable is returned.
C9_ForbiddenRejected ==
    (ret # <<>> /\ HasForbidden(call)) =>
        (~ret[1].ok /\ ret[1].evaluator.kind # "compiled")

\* a rejected tree whose forbidden node is an argument of a call that is
\* itself an operand or argument
C9_Witness ==
    /\ ret # <<>>
    /\ ~ret[1].ok
    /\ ~ForbiddenHere(call.kids[1])
    /\ \E i \in 1..Len(call.kids[1].kids) :
          /\ call.kids[1].kids[i].t = "Call"
          /\ ~ForbiddenHere(call.kids[1].kids[i])
          /\ HasForbidden(call.kids[1].kids[i])

\* some value in the tree is a function name or a constant that is not a number
RECURSIVE HasBadLeaf(_)
HasBadLeaf(node) ==
    \/ node.t = "Name" /\ node.a \in _ALLOWED_FUNCTIONS
    \/ node.t = "Constant" /\ node.a \notin {"int", "float"}
    \/ \E i \in 1..Len(node.kids) : HasBadLeaf(node.kids[i])

\* C10: a tree in which a whitelisted function name stands as a value, or
\* which holds a non-numeric constant, is rejected.
C10_LeavesChecked == (ret # <<>> /\ HasBadLeaf(call)) => ~ret[1].ok

---------------------------------------------------------------------------
(* The compiled closure alone: one call of a handle on one input           *)

EvalAtoms ==
    { Name("x"), Constant("int", FxOne), Constant("float", FxOne \div 2),
      Name("pi"), Constant("bool", FxOne), Constant("NoneType", 0), Name("sin") }

EvalOperands == { Name("x"), Constant("int", 2 * FxOne), Constant("float", FxOne \div 2) }

EvalShallow ==
    { UnaryOp("USub", a) : a \in EvalAtoms }
      \cup { BinOp(a, op, b) : a \in EvalAtoms,
                               op \in {"Add", "Mult", "Div", "Mod", "Pow"},
                               b \in EvalOperands }
      \cup { Call(Name(f), <<a>>, 0) : f \in {"sqrt", "exp", "abs", "sin"}, a \in EvalAtoms }
      \cup { Call(Name("sin"), <<>>, 0) }

EvalNested ==
    { UnaryOp("USub", t) : t \in EvalShallow }
      \cup { Call(Name(f), <<t>>, 0) : f \in {"sqrt", "abs"}, t \in EvalShallow }
      \cup { BinOp(Constant("int", FxOne), "Div", t) : t \in EvalShallow }

EvalTrees == { Expression(t) : t \in EvalAtoms \cup EvalShallow \cup EvalNested }

EvalInputs == { -FxOne, 0, FxOne \div 2, 2 * FxOne, 10 * FxOne }

\* the handles are the closures of the trees that pass validation
InitEvaluate ==
    /\ state = create_initial_state
    /\ call \in [tree : { t \in EvalTrees : CompileTree(t).ok }, x : EvalInputs]
    /\ ret = <<>>

Evaluate ==
    /\ ret = <<>>
    /\ ret' = << [value |-> evaluator(call.tree, call.x),
                  error |-> evaluator_raises(call.tree, call.x)] >>
    /\ UNCHANGED <<state, call>>

NextEvaluate == Evaluate

SpecEvaluate == InitEvaluate /\ [][NextEvaluate]_vars

====
